---- MODULE Spec2Model ----
(***************************************************************************)
(* Book / Author catalogue API of advanced-api-project (Django REST        *)
(* framework): the stored collections, the write handlers with their       *)
(* validation, and the list pipeline  filter -> search -> order ->         *)
(* paginate  with the page cache that wraps the two list handlers.         *)
(*                                                                         *)
(* Text is a sequence of one-character strings, decimals are integers in   *)
(* hundredths (29.99 is 2999), a nullable column is a set with at most one *)
(* element ({} is NULL), a raw query parameter is [t, v] with t one of     *)
(* "none" (absent), "bad" (not parseable as a number) and "num".           *)
(***************************************************************************)
EXTENDS Integers, Sequences, FiniteSets, TLC

VARIABLES authors, books, nextId, clock, year, cache, resp, scan, pending,
          creating,
          \* social_media_api: Profile.following per user, the posts, the
          \* comments, the number of objects made and the last response
          following, posts, comments, made, reply

\* the state of social_media_api
social == <<following, posts, comments, made, reply>>

\* the state of advanced-api-project
catalogue ==
    <<authors, books, nextId, clock, year, cache, resp, scan, pending, creating>>

vars == <<catalogue, social>>

(***************************************************************************)
(* Bounds of the model.                                                    *)
(***************************************************************************)
MaxPage == 3
MaxBookId == 5
MaxAuthorId == 4
MaxCache == 1
MaxYears == 1
MaxMade == 3

(***************************************************************************)
(* Program constants.                                                      *)
(***************************************************************************)
page_size == 20
max_page_size == 100
IsbnLength == 13
MinPublicationYear == 1000
MaxRating == 500
TitleMaxLength == 200
AuthorNameMaxLength == 100
AuthorNameMinLength == 2
StartYear == 2024

(***************************************************************************)
(* Text.                                                                   *)
(***************************************************************************)
Digits == {"0", "1", "2", "3", "4", "5", "6", "7", "8", "9"}

\* str.lower() / the case folding of icontains and iexact
Lower(c) == IF c = "A" THEN "a" ELSE IF c = "B" THEN "b" ELSE c

LowerStr(s) == [i \in 1..Len(s) |-> Lower(s[i])]

\* byte order of the characters (the store's BINARY collation)
Rank(c) ==
    IF c = " " THEN 32
    ELSE IF c \in Digits THEN 48
    ELSE IF c = "A" THEN 65
    ELSE IF c = "B" THEN 66
    ELSE IF c = "a" THEN 97
    ELSE 98

RECURSIVE StrCmp(_, _)
StrCmp(s, t) ==
    IF s = <<>> /\ t = <<>> THEN 0
    ELSE IF s = <<>> THEN 0 - 1
    ELSE IF t = <<>> THEN 1
    ELSE IF Rank(Head(s)) < Rank(Head(t)) THEN 0 - 1
    ELSE IF Rank(Head(s)) > Rank(Head(t)) THEN 1
    ELSE StrCmp(Tail(s), Tail(t))

Contains(s, t) ==
    \E i \in 0..(Len(s) - Len(t)) : SubSeq(s, i + 1, i + Len(t)) = t

\* lookup_expr='icontains'
IContains(s, t) == Contains(LowerStr(s), LowerStr(t))

\* lookup_expr='iexact'
IExact(s, t) == LowerStr(s) = LowerStr(t)

RECURSIVE Strip(_)
Strip(s) ==
    IF s = <<>> THEN s
    ELSE IF Head(s) = " " THEN Strip(Tail(s))
    ELSE IF s[Len(s)] = " " THEN Strip(SubSeq(s, 1, Len(s) - 1))
    ELSE s

\* characters for which str.isdigit() is true and that are no decimal
\* digits: "^2" stands for SUPERSCRIPT TWO (U+00B2)
OtherDigits == {"^2"}

\* str.isdigit()
IsDigit(s) == s # <<>> /\ \A i \in 1..Len(s) : s[i] \in Digits \cup OtherDigits

\* str.split(): the maximal runs of non-blank characters, in order
RECURSIVE SplitWords(_, _)
SplitWords(s, cur) ==
    IF s = <<>> THEN (IF cur = <<>> THEN <<>> ELSE <<cur>>)
    ELSE IF Head(s) = " "
         THEN (IF cur = <<>> THEN <<>> ELSE <<cur>>) \o SplitWords(Tail(s), <<>>)
         ELSE SplitWords(Tail(s), Append(cur, Head(s)))

Range(s) == {s[i] : i \in 1..Len(s)}

RECURSIVE SumOver(_, _)
SumOver(S, f) ==
    IF S = {} THEN 0
    ELSE LET x == CHOOSE y \in S : TRUE
         IN  f[x] + SumOver(S \ {x}, f)

RECURSIVE Product(_, _)
Product(S, f) ==
    IF S = {} THEN 1
    ELSE LET x == CHOOSE y \in S : TRUE
         IN  f[x] * Product(S \ {x}, f)

(***************************************************************************)
(* Raw query-parameter values.                                             *)
(***************************************************************************)
None == [t |-> "none", v |-> 0]

Bad == [t |-> "bad", v |-> 0]

Num(n) == [t |-> "num", v |-> n]

(***************************************************************************)
(* Entities.  An Author is [id, name, bio, birth_date, nationality,        *)
(* created_at]; a Book is [id, title, author, isbn, publication_year,      *)
(* genre, pages, rating, price, description, in_stock, created_at].        *)
(***************************************************************************)
GENRE_CHOICES ==
    {"fiction", "non-fiction", "mystery", "romance", "sci-fi", "fantasy",
     "biography", "history", "self-help", "business", "technology", "other"}

\* case folding of the genre spellings used in requests
GenreLower(g) ==
    IF g = "Fiction" THEN "fiction"
    ELSE IF g = "Technology" THEN "technology"
    ELSE g

Isbn(d) == <<"9", "7", "8", "1", "2", "3", "4", "5", "6", "7", "8", "9", d>>

Author1 ==
    [id |-> 1, name |-> <<"b">>, bio |-> <<"a">>, birth_date |-> {1970},
     nationality |-> <<"A">>, created_at |-> 1]

Author2 ==
    [id |-> 2, name |-> <<"a", "b">>, bio |-> <<>>, birth_date |-> {},
     nationality |-> <<"B">>, created_at |-> 2]

Author3 ==
    [id |-> 3, name |-> <<"b">>, bio |-> <<"b">>, birth_date |-> {1960},
     nationality |-> <<"a">>, created_at |-> 3]

FixtureAuthors == {Author1, Author2, Author3}

Book1 ==
    [id |-> 1, title |-> <<"a", " ", "b">>, author |-> 1, isbn |-> Isbn("0"),
     publication_year |-> StartYear - 1, genre |-> "technology", pages |-> {350},
     rating |-> {450}, price |-> 2999, description |-> <<>>, in_stock |-> TRUE,
     created_at |-> 4]

Book2 ==
    [id |-> 2, title |-> <<"B">>, author |-> 1, isbn |-> Isbn("1"),
     publication_year |-> StartYear - 2, genre |-> "fiction", pages |-> {280},
     rating |-> {420}, price |-> 1999, description |-> <<"a">>, in_stock |-> FALSE,
     created_at |-> 5]

Book3 ==
    [id |-> 3, title |-> <<"a">>, author |-> 2, isbn |-> Isbn("2"),
     publication_year |-> StartYear, genre |-> "fiction", pages |-> {},
     rating |-> {}, price |-> 1999, description |-> <<"b">>, in_stock |-> TRUE,
     created_at |-> 6]

Book4 ==
    [id |-> 4, title |-> <<"A", "b">>, author |-> 1, isbn |-> Isbn("3"),
     publication_year |-> StartYear - 2, genre |-> "fiction", pages |-> {350},
     rating |-> {450}, price |-> 2999, description |-> <<"b", " ", "a">>,
     in_stock |-> TRUE, created_at |-> 7]

FixtureBooks == {Book1, Book2, Book3, Book4}

Book5 ==
    [id |-> 5, title |-> <<"b">>, author |-> 3, isbn |-> Isbn("4"),
     publication_year |-> StartYear - 1, genre |-> "mystery", pages |-> {},
     rating |-> {435}, price |-> 150000, description |-> <<>>, in_stock |-> FALSE,
     created_at |-> 8]

AuthorById(as, i) == CHOOSE a \in as : a.id = i

\* author.books
BooksOf(bs, a) == {b \in bs : b.author = a.id}

(***************************************************************************)
(* BookFilter (filters.py).  A filter request is a record of raw values;   *)
(* an empty text and a "none" value mean that the key is not supplied.     *)
(***************************************************************************)
NoBookFilter ==
    [title |-> <<>>, description |-> <<>>, isbn |-> <<>>, author_name |-> <<>>,
     price_min |-> None, price_max |-> None,
     rating_min |-> None, rating_max |-> None,
     pages_min |-> None, pages_max |-> None,
     publication_year_min |-> None, publication_year_max |-> None,
     genre |-> "", in_stock |-> "", author |-> None]

BookNumberKeys ==
    {"price_min", "price_max", "rating_min", "rating_max", "pages_min",
     "pages_max", "publication_year_min", "publication_year_max"}

\* (mutant) a lower bound that excludes the bound itself
GtStrict(v, raw) == raw.t = "num" => \E x \in v : x > raw.v

\* NumberFilter(lookup_expr='gte') on a column whose value is the option v
Gte(v, raw) == raw.t = "num" => \E x \in v : x >= raw.v

\* NumberFilter(lookup_expr='lte')
Lte(v, raw) == raw.t = "num" => \E x \in v : x <= raw.v

\* The form errors of the filterset: the keys whose value does not clean
\* (a BooleanFilter cleans every text it does not know to None)
BookFilterErrors(f, as) ==
    {k \in BookNumberKeys : f[k].t = "bad"}
    \cup (IF f.genre # "" /\ f.genre \notin GENRE_CHOICES THEN {"genre"} ELSE {})
    \cup (IF f.author.t = "bad"
             \/ (f.author.t = "num" /\ ~ \E a \in as : a.id = f.author.v)
          THEN {"author"} ELSE {})

\* One criterion of BookFilter applied to one book
BookCriterion(k, f, b, as) ==
    CASE k = "title" -> f.title # <<>> => IContains(b.title, f.title)
      [] k = "description" ->
            f.description # <<>> => IContains(b.description, f.description)
      [] k = "isbn" -> f.isbn # <<>> => b.isbn = f.isbn
      [] k = "author_name" ->
            f.author_name # <<>>
                => IContains(AuthorById(as, b.author).name, f.author_name)
      [] k = "price_min" -> Gte({b.price}, f.price_min)
      [] k = "price_max" -> Lte({b.price}, f.price_max)
      [] k = "rating_min" -> Gte(b.rating, f.rating_min)
      [] k = "rating_max" -> Lte(b.rating, f.rating_max)
      [] k = "pages_min" -> Gte(b.pages, f.pages_min)
      [] k = "pages_max" -> Lte(b.pages, f.pages_max)
      [] k = "publication_year_min" ->
            Gte({b.publication_year}, f.publication_year_min)
      [] k = "publication_year_max" ->
            Lte({b.publication_year}, f.publication_year_max)
      [] k = "genre" -> f.genre # "" => b.genre = f.genre
      [] k = "in_stock" ->
            f.in_stock \in {"true", "false"} => b.in_stock = (f.in_stock = "true")
      [] k = "author" -> f.author.t = "num" => b.author = f.author.v

BookFilterKeys == DOMAIN NoBookFilter

\* FilterSet.qs: every supplied criterion narrows the queryset in turn
BookFilterQs(f, bs, as) ==
    {b \in bs : \A k \in BookFilterKeys : BookCriterion(k, f, b, as)}

(***************************************************************************)
(* SearchFilter over search_fields: the query is split at blanks into      *)
(* terms; an entity stays when every term occurs in at least one field.    *)
(***************************************************************************)
SearchTerms(q) == SplitWords(q, <<>>)

BookSearchFields(b, as) ==
    {b.title, AuthorById(as, b.author).name, b.description, b.isbn}

AuthorSearchFields(a) == {a.name, a.bio, a.nationality}

\* (mutant) the query matched as one substring
WholeQueryMatches(q, fs) == q = <<>> \/ \E s \in fs : IContains(s, q)

\* filters.SearchFilter.filter_queryset for one entity with the fields fs
SearchMatches(q, fs) ==
    \A term \in Range(SearchTerms(q)) : \E s \in fs : IContains(s, term)

BookSearchQs(q, bs, as) ==
    {b \in bs : SearchMatches(q, BookSearchFields(b, as))}

(***************************************************************************)
(* OrderingFilter.  An ordering term is [f, desc]; the request carries a   *)
(* sequence of terms (ordering=a,-b).                                      *)
(***************************************************************************)
Asc(f) == [f |-> f, desc |-> FALSE]

Desc(f) == [f |-> f, desc |-> TRUE]

BookOrderingFields == {"title", "publication_year", "rating", "price", "created_at"}

AuthorOrderingFields == {"name", "birth_date", "created_at"}

\* (mutant) the view falling back to the ordering of Book.Meta
MetaOrderingInView == <<Desc("publication_year"), Asc("title")>>

\* BookViewSet.ordering
BookViewOrdering == <<Desc("created_at")>>

\* AuthorViewSet.ordering
AuthorViewOrdering == <<Asc("name")>>

\* Book.Meta.ordering
BookMetaOrdering == <<Desc("publication_year"), Asc("title")>>

\* OrderingFilter.get_ordering: the valid terms of the request, else the view's
GetOrdering(params, allowed, default) ==
    LET valid == SelectSeq(params, LAMBDA t : t.f \in allowed)
    IN  IF valid # <<>> THEN valid ELSE default

IntCmp(x, y) == IF x < y THEN 0 - 1 ELSE IF x > y THEN 1 ELSE 0

\* NULL sorts before every value
OptCmp(x, y) ==
    IF x = {} /\ y = {} THEN 0
    ELSE IF x = {} THEN 0 - 1
    ELSE IF y = {} THEN 1
    ELSE IntCmp(CHOOSE v \in x : TRUE, CHOOSE v \in y : TRUE)

\* the comparison ORDER BY makes on one column of two rows
FieldCmp(x, y, f) ==
    IF f \in {"title", "name"} THEN StrCmp(x[f], y[f])
    ELSE IF f \in {"rating", "birth_date"} THEN OptCmp(x[f], y[f])
    ELSE IntCmp(x[f], y[f])

RECURSIVE RowCmp(_, _, _)
RowCmp(x, y, ord) ==
    IF ord = <<>> THEN 0
    ELSE LET c == FieldCmp(x, y, Head(ord).f)
             d == IF Head(ord).desc THEN 0 - c ELSE c
         IN  IF d # 0 THEN d ELSE RowCmp(x, y, Tail(ord))

\* queryset.order_by(*ord) in general: every sequence of the rows that
\* ORDER BY allows; rows that tie on all the terms come in an order the store
\* chooses.  A row is [e, k]: the entity and the index of the row among its
\* duplicates.
RECURSIVE OrderByAny(_, _)
OrderByAny(rows, ord) ==
    IF rows = {} THEN {<<>>}
    ELSE LET least == {m \in rows : \A r \in rows : RowCmp(m.e, r.e, ord) <= 0}
         IN  UNION {{<<m.e.id>> \o t : t \in OrderByAny(rows \ {m}, ord)} :
                       m \in least}

\* for every row, the number n of rows that ORDER BY puts before it
RowsBefore(rows, ord) ==
    {[id |-> m.e.id,
      n |-> Cardinality({r \in rows : RowCmp(r.e, m.e, ord) < 0})] : m \in rows}

\* when no two rows tie there is one sequence: the row with i - 1 rows
\* before it in place i
OrderByRanked(rows, ranked, ord) ==
    IF Cardinality({p.n : p \in ranked}) = Cardinality(rows)
    THEN {[i \in 1..Cardinality(rows) |->
              (CHOOSE p \in ranked : p.n = i - 1).id]}
    ELSE OrderByAny(rows, ord)

\* queryset.order_by(*ord)
OrderBy(rows, ord) == OrderByRanked(rows, RowsBefore(rows, ord), ord)

BookRows(bs) == {[e |-> b, k |-> 1] : b \in bs}

(***************************************************************************)
(* StandardResultsSetPagination (pagination.py) over PageNumberPagination. *)
(***************************************************************************)
Min(a, b) == IF a < b THEN a ELSE b

\* (mutant) a requested page size taken as it is
NoMaxPageSize(raw) == IF raw.t = "num" /\ raw.v >= 1 THEN raw.v ELSE page_size

\* get_page_size: a positive integer is cut off at max_page_size, anything
\* else falls back to page_size
GetPageSize(raw) ==
    IF raw.t = "num" /\ raw.v >= 1 THEN Min(raw.v, max_page_size) ELSE page_size

\* (mutant) the number of pages as the plain quotient rounded up
CeilPages(count, per) == (count + per - 1) \div per

\* Paginator.num_pages (allow_empty_first_page, no orphans)
NumPages(count, per) == IF count = 0 THEN 1 ELSE (count + per - 1) \div per

\* Paginator.validate_number
ValidPage(raw, count, per) ==
    \/ raw.t = "none"
    \/ raw.t = "num" /\ raw.v >= 1 /\ raw.v <= NumPages(count, per)

PageNumber(raw) == IF raw.t = "none" THEN 1 ELSE raw.v

\* Paginator.page(number).object_list
PageSlice(seq, n, per) == SubSeq(seq, (n - 1) * per + 1, Min(n * per, Len(seq)))

ErrorResponse(status, errs) ==
    [status |-> status, errors |-> errs, count |-> 0, next |-> {}, previous |-> {},
     page_size |-> 0, total_pages |-> 0, current_page |-> 0, results |-> <<>>]

\* (mutant) a page past the last one answered as an empty page
EmptyPageForInvalid(seq, page, psize) ==
    IF page.t = "num" /\ page.v >= 1
    THEN [status |-> 200, errors |-> {}, count |-> Len(seq), next |-> {},
          previous |-> {}, page_size |-> GetPageSize(psize),
          total_pages |-> NumPages(Len(seq), GetPageSize(psize)),
          current_page |-> page.v, results |-> <<>>]
    ELSE ErrorResponse(404, {"page"})

\* paginate_queryset answers an invalid page with NotFound
InvalidPage(seq, page, psize) == ErrorResponse(404, {"page"})

\* paginate_queryset + get_paginated_response on the ordered rows seq
Paginate(seq, page, psize) ==
    LET per == GetPageSize(psize)
        count == Len(seq)
        n == PageNumber(page)
        pages == NumPages(count, per)
    IN  IF ~ ValidPage(page, count, per) THEN InvalidPage(seq, page, psize)
        ELSE [status |-> 200, errors |-> {}, count |-> count,
              next |-> IF n < pages THEN {n + 1} ELSE {},
              previous |-> IF n > 1 THEN {n - 1} ELSE {},
              page_size |-> per, total_pages |-> pages, current_page |-> n,
              results |-> PageSlice(seq, n, per)]

(***************************************************************************)
(* The list pipeline of BookViewSet (GenericAPIView.filter_queryset, then  *)
(* pagination).                                                            *)
(***************************************************************************)
BookListRequest(f, q, ord, page, psize, auth) ==
    [view |-> "books", method |-> "list", auth |-> auth, filter |-> f,
     search |-> q, ordering |-> ord, page |-> page, page_size |-> psize]

\* The queryset after DjangoFilterBackend and SearchFilter
BookCandidates(req, bs, as) ==
    BookSearchQs(req.search, BookFilterQs(req.filter, bs, as), as)

\* The responses the list handler can compute for req on the collections
BookListResponses(req, bs, as) ==
    IF BookFilterErrors(req.filter, as) # {}
    THEN {ErrorResponse(400, BookFilterErrors(req.filter, as))}
    ELSE LET ord == GetOrdering(req.ordering, BookOrderingFields, BookViewOrdering)
         IN  {Paginate(seq, req.page, req.page_size) :
                 seq \in OrderBy(BookRows(BookCandidates(req, bs, as)), ord)}

(***************************************************************************)
(* AuthorFilter (filters.py).  The criteria on related books are queries   *)
(* over the join of Author with Book.  The filters run in the order of     *)
(* Meta.fields.  Each filter(books__...) call joins the book table under a *)
(* new alias; annotate(Count('books')) and annotate(Avg('books__rating'))  *)
(* use the most recent alias already joined, or join one.  A join is       *)
(* [kind, g, y]: "notnull" (books__isnull=False), "isnull"                 *)
(* (books__isnull=True), "outer" (joined by an annotation), "genre"        *)
(* (books__genre__iexact=g), "year" (books__publication_year=y).           *)
(***************************************************************************)
NoAuthorFilter ==
    [name |-> <<>>, bio |-> <<>>, nationality |-> <<>>, has_books |-> "",
     min_books |-> None, max_books |-> None, book_genre |-> "",
     book_publication_year |-> None, book_rating_min |-> None]

AuthorNumberKeys ==
    {"min_books", "max_books", "book_publication_year", "book_rating_min"}

AuthorFilterErrors(f) == {k \in AuthorNumberKeys : f[k].t = "bad"}

Join(kind, g, y) == [kind |-> kind, g |-> g, y |-> y]

\* the joins a filter(books__...) call adds: always a new alias
FilterJoins(f) ==
    (IF f.book_genre # "" THEN <<Join("genre", f.book_genre, 0)>> ELSE <<>>)
    \o (IF f.book_publication_year.t = "num"
        THEN <<Join("year", "", f.book_publication_year.v)>> ELSE <<>>)

\* The aliases of the book table in the final query, in the order joined
AuthorJoins(f) ==
    LET hb == IF f.has_books = "true" THEN <<Join("notnull", "", 0)>>
              ELSE IF f.has_books = "false" THEN <<Join("isnull", "", 0)>>
              ELSE <<>>
        counted == f.min_books.t = "num" \/ f.max_books.t = "num"
        cnt == IF counted /\ hb = <<>> THEN <<Join("outer", "", 0)>> ELSE <<>>
        base == hb \o cnt \o FilterJoins(f)
    IN  IF f.book_rating_min.t = "num" /\ base = <<>>
        THEN <<Join("outer", "", 0)>>
        ELSE base

\* the books an alias binds for author a after the WHERE clause
JoinBooks(j, a, bs) ==
    CASE j.kind = "notnull" -> BooksOf(bs, a)
      [] j.kind = "isnull" -> {}
      [] j.kind = "outer" -> BooksOf(bs, a)
      [] j.kind = "genre" ->
            {b \in BooksOf(bs, a) : GenreLower(b.genre) = GenreLower(j.g)}
      [] j.kind = "year" -> {b \in BooksOf(bs, a) : b.publication_year = j.y}

\* the rows an alias contributes for author a: its books, or the one
\* NULL-extended row of a LEFT OUTER JOIN when the author has no book
JoinRows(j, a, bs) ==
    IF j.kind \in {"isnull", "outer"} /\ BooksOf(bs, a) = {}
    THEN 1
    ELSE Cardinality(JoinBooks(j, a, bs))

\* the rows of the joined query for author a
AuthorRowCount(f, a, bs) ==
    LET js == AuthorJoins(f)
    IN  Product(DOMAIN js, [i \in DOMAIN js |-> JoinRows(js[i], a, bs)])

\* Count('books'): the rows of the group in which alias i binds a book
BookCount(f, a, bs, i) ==
    LET js == AuthorJoins(f)
        others == DOMAIN js \ {i}
    IN  Cardinality(JoinBooks(js[i], a, bs))
            * Product(others, [k \in DOMAIN js |-> JoinRows(js[k], a, bs)])

\* Avg('books__rating') >= x over the books alias i binds (hundredths)
AvgRatingGte(f, a, bs, i, x) ==
    LET rated == {b \in JoinBooks(AuthorJoins(f)[i], a, bs) : b.rating # {}}
        total == SumOver(rated, [b \in rated |-> CHOOSE r \in b.rating : TRUE])
    IN  rated # {} /\ total >= x * Cardinality(rated)

\* filter_min_books
FilterMinBooks(f, a, bs) ==
    f.min_books.t = "num" => BookCount(f, a, bs, 1) >= f.min_books.v

\* (mutant) the count taken over an inner join: authors without a book drop out
MaxBooksOfOwners(f, a, bs) ==
    f.max_books.t = "num"
        => BooksOf(bs, a) # {} /\ BookCount(f, a, bs, 1) <= f.max_books.v

\* filter_max_books
FilterMaxBooks(f, a, bs) ==
    f.max_books.t = "num" => BookCount(f, a, bs, 1) <= f.max_books.v

\* filter_book_rating_min
FilterBookRatingMin(f, a, bs) ==
    f.book_rating_min.t = "num"
        => AvgRatingGte(f, a, bs, Len(AuthorJoins(f)), f.book_rating_min.v)

AuthorTextCriteria(f, a) ==
    /\ f.name # <<>> => IContains(a.name, f.name)
    /\ f.bio # <<>> => IContains(a.bio, f.bio)
    /\ f.nationality # <<>> => IContains(a.nationality, f.nationality)

AuthorGrouped(f) ==
    f.min_books.t = "num" \/ f.max_books.t = "num" \/ f.book_rating_min.t = "num"

\* filter_has_books adds .distinct() for has_books=true only
AuthorDistinct(f) == f.has_books = "true"

\* How many rows of the filtered queryset are author a
AuthorMultiplicity(f, a, bs) ==
    IF /\ AuthorTextCriteria(f, a)
       /\ AuthorRowCount(f, a, bs) > 0
       /\ FilterMinBooks(f, a, bs)
       /\ FilterMaxBooks(f, a, bs)
       /\ FilterBookRatingMin(f, a, bs)
    THEN IF AuthorGrouped(f) \/ AuthorDistinct(f) THEN 1 ELSE AuthorRowCount(f, a, bs)
    ELSE 0

\* FilterSet.qs of AuthorFilter, as rows [e, k]
AuthorFilterRows(f, as, bs) ==
    UNION {{[e |-> a, k |-> k] : k \in 1..AuthorMultiplicity(f, a, bs)} : a \in as}

AuthorListRequest(f, q, ord, page, psize, auth) ==
    [view |-> "authors", method |-> "list", auth |-> auth, filter |-> f,
     search |-> q, ordering |-> ord, page |-> page, page_size |-> psize]

\* The rows after DjangoFilterBackend and SearchFilter
AuthorCandidates(req, as, bs) ==
    {r \in AuthorFilterRows(req.filter, as, bs) :
        SearchMatches(req.search, AuthorSearchFields(r.e))}

\* The responses the list handler can compute for req on the collections
AuthorListResponses(req, bs, as) ==
    IF AuthorFilterErrors(req.filter) # {}
    THEN {ErrorResponse(400, AuthorFilterErrors(req.filter))}
    ELSE LET ord == GetOrdering(req.ordering, AuthorOrderingFields, AuthorViewOrdering)
         IN  {Paginate(seq, req.page, req.page_size) :
                 seq \in OrderBy(AuthorCandidates(req, as, bs), ord)}

(***************************************************************************)
(* Write path: BookSerializer (serializers.py) and Book.save (models.py).  *)
(* The data of a write request is a record of options: {} is a key the     *)
(* request does not carry.                                                 *)
(***************************************************************************)
NoData ==
    [title |-> {}, author_id |-> {}, isbn |-> {}, publication_year |-> {},
     genre |-> {}, pages |-> {}, rating |-> {}, price |-> {}, description |-> {},
     in_stock |-> {}]

BookRequiredFields == {"title", "author_id", "isbn", "publication_year", "price"}

The(opt) == CHOOSE x \in opt : TRUE

\* validate_title
validate_title(value) ==
    /\ Strip(value) # <<>>
    /\ Len(Strip(value)) >= 1
    /\ Len(Strip(value)) <= TitleMaxLength

\* validate_isbn; inst is the option of the instance being updated
validate_isbn(value, inst, bs) ==
    /\ value # <<>>
    /\ IsDigit(value)
    /\ Len(value) = IsbnLength
    /\ (\E b \in bs : b.isbn = value)
          => (inst # {} /\ The(inst).isbn = value)

\* validate_publication_year
validate_publication_year(value, current_year) ==
    /\ ~ (value > current_year)
    /\ ~ (value < MinPublicationYear)

\* validate_rating
validate_rating(value) == ~ (value < 0 \/ value > MaxRating)

\* validate_price
validate_price(value) == ~ (value < 0)

\* Book.isbn unique=True: no other stored book has the value
UniqueIsbn(value, inst, bs) ==
    ~ \E b \in bs : b.isbn = value /\ (inst = {} \/ b.id # The(inst).id)

\* (mutant) no uniqueness check of the triple at save
NoUniqueTogether(b, bs) == TRUE

\* Book.Meta.unique_together: no other stored book has the triple
UniqueTogether(b, bs) ==
    ~ \E o \in bs :
        /\ o.id # b.id
        /\ o.title = b.title
        /\ o.author = b.author
        /\ o.publication_year = b.publication_year

\* The validators the model fields declare (run by the serializer fields
\* and again by Model.clean_fields)
FieldValidatorsOk(k, v) ==
    CASE k = "title" -> Strip(v) # <<>> /\ Len(v) <= TitleMaxLength
      [] k = "isbn" -> Strip(v) # <<>> /\ Len(v) <= IsbnLength
      [] k = "publication_year" -> v >= MinPublicationYear /\ v <= StartYear
      [] k = "genre" -> v \in GENRE_CHOICES
      [] k = "pages" -> v >= 0
      [] k = "rating" -> v >= 0 /\ v <= MaxRating
      [] k = "price" -> v >= 0
      [] OTHER -> TRUE

\* One field of the request through its serializer field and validate_<field>
BookFieldOk(k, v, inst, bs, as, current_year) ==
    /\ FieldValidatorsOk(k, v)
    /\ CASE k = "title" -> validate_title(v)
         [] k = "author_id" -> \E a \in as : a.id = v
         [] k = "isbn" -> UniqueIsbn(v, inst, bs) /\ validate_isbn(v, inst, bs)
         [] k = "publication_year" -> validate_publication_year(v, current_year)
         [] k = "rating" -> validate_rating(v)
         [] k = "price" -> validate_price(v)
         [] OTHER -> TRUE

\* (mutant) the isbn field without its validators
BookFieldErrorsButIsbn(data, partial, inst, bs, as, current_year) ==
    {k \in DOMAIN data \ {"isbn"} :
        \/ data[k] = {} /\ ~ partial /\ k \in BookRequiredFields
        \/ data[k] # {} /\ ~ BookFieldOk(k, The(data[k]), inst, bs, as, current_year)}

\* (mutant) validation stops at the first field in error
FailFast(data, partial, inst, bs, as, current_year) ==
    LET errs == {k \in DOMAIN data :
                    \/ data[k] = {} /\ ~ partial /\ k \in BookRequiredFields
                    \/ data[k] # {} /\ ~ BookFieldOk(k, The(data[k]), inst, bs, as,
                                                     current_year)}
    IN  IF errs = {} THEN {} ELSE {CHOOSE k \in errs : TRUE}

\* Serializer.to_internal_value: the errors of all fields are collected
BookFieldErrors(data, partial, inst, bs, as, current_year) ==
    {k \in DOMAIN data :
        \/ data[k] = {} /\ ~ partial /\ k \in BookRequiredFields
        \/ data[k] # {} /\ ~ BookFieldOk(k, The(data[k]), inst, bs, as, current_year)}

\* title__iexact, author, publication_year
SameTriple(b, title, author, publication_year) ==
    /\ IExact(b.title, title)
    /\ b.author = author
    /\ b.publication_year = publication_year

\* existing.first(): the first match under Book.Meta.ordering
FirstBook(bs) ==
    CHOOSE b \in bs : \A o \in bs : RowCmp(b, o, BookMetaOrdering) <= 0

\* BookSerializer.validate: the object-level check of the triple
validate(data, inst, bs) ==
    LET complete == data.title # {} /\ data.author_id # {} /\ data.publication_year # {}
        existing == {b \in bs : SameTriple(b, Strip(The(data.title)),
                                           The(data.author_id),
                                           The(data.publication_year))}
    IN  (complete /\ existing # {})
            => (inst # {} /\ FirstBook(existing).id = The(inst).id)

\* Model.clean_fields + Book.clean + Model.validate_unique
full_clean(b, bs, current_year) ==
    /\ \A k \in {"title", "isbn", "publication_year", "genre", "price"} :
            FieldValidatorsOk(k, b[k])
    /\ \A k \in {"pages", "rating"} : \A v \in b[k] : FieldValidatorsOk(k, v)
    /\ ~ (b.publication_year > current_year)
    /\ IsDigit(b.isbn)
    /\ Len(b.isbn) = IsbnLength
    /\ UniqueIsbn(b.isbn, {b}, bs)
    /\ UniqueTogether(b, bs)

\* Book.save: the row is written only when full_clean raises nothing
Book_save(b, bs, current_year) ==
    IF full_clean(b, bs, current_year)
    THEN {o \in bs : o.id # b.id} \cup {b}
    ELSE bs

Saved(b, bs, current_year) == b \in Book_save(b, bs, current_year)

Or(opt, default) == IF opt = {} THEN default ELSE The(opt)

\* ModelSerializer.create: the instance built from the validated data
NewBook(data, id, now) ==
    [id |-> id, title |-> Strip(The(data.title)), author |-> The(data.author_id),
     isbn |-> The(data.isbn), publication_year |-> The(data.publication_year),
     genre |-> Or(data.genre, "other"), pages |-> data.pages, rating |-> data.rating,
     price |-> The(data.price), description |-> Or(data.description, <<>>),
     in_stock |-> Or(data.in_stock, TRUE), created_at |-> now]

\* (mutant) the keys the request does not carry fall back to their defaults
ResetBook(b, data) ==
    [id |-> b.id,
     title |-> IF data.title = {} THEN b.title ELSE Strip(The(data.title)),
     author |-> Or(data.author_id, b.author),
     isbn |-> Or(data.isbn, b.isbn),
     publication_year |-> Or(data.publication_year, b.publication_year),
     genre |-> Or(data.genre, "other"),
     pages |-> data.pages,
     rating |-> data.rating,
     price |-> Or(data.price, b.price),
     description |-> Or(data.description, <<>>),
     in_stock |-> Or(data.in_stock, TRUE),
     created_at |-> b.created_at]

\* ModelSerializer.update: setattr for every validated key
UpdatedBook(b, data) ==
    [id |-> b.id,
     title |-> IF data.title = {} THEN b.title ELSE Strip(The(data.title)),
     author |-> Or(data.author_id, b.author),
     isbn |-> Or(data.isbn, b.isbn),
     publication_year |-> Or(data.publication_year, b.publication_year),
     genre |-> Or(data.genre, b.genre),
     pages |-> IF data.pages = {} THEN b.pages ELSE data.pages,
     rating |-> IF data.rating = {} THEN b.rating ELSE data.rating,
     price |-> Or(data.price, b.price),
     description |-> Or(data.description, b.description),
     in_stock |-> Or(data.in_stock, b.in_stock),
     created_at |-> b.created_at]

WriteRequest(view, method, auth, pk, data) ==
    [view |-> view, method |-> method, auth |-> auth, pk |-> pk, data |-> data]

Success(status, ids) ==
    [status |-> status, errors |-> {}, count |-> 0, next |-> {}, previous |-> {},
     page_size |-> 0, total_pages |-> 0, current_page |-> 0, results |-> ids]

\* the handlers reached with GET
SafeMethods ==
    {"list", "retrieve", "in_stock", "top_rated", "statistics", "recent",
     "by_genre", "price_range", "search"}

\* (mutant) no permission class on the views
AllowAny(method, auth) == TRUE

\* IsAuthenticatedOrReadOnly.has_permission on the viewsets and the generic
\* read views; IsAuthenticated on the generic write views, whose methods are
\* all unsafe
HasPermission(method, auth) == method \in SafeMethods \/ auth

\* The answer of a write on the book collection: [res, books]
\* serializer.is_valid, then serializer.save
BookWrite(method, data, inst, id, bs, as, now, current_year) ==
    LET partial == method = "partial_update"
        errs == BookFieldErrors(data, partial, inst, bs, as, current_year)
        b == IF inst = {} THEN NewBook(data, id, now) ELSE UpdatedBook(The(inst), data)
    IN  IF errs # {} THEN [res |-> ErrorResponse(400, errs), books |-> bs]
        ELSE IF ~ validate(data, inst, bs)
        THEN [res |-> ErrorResponse(400, {"non_field_errors"}), books |-> bs]
        ELSE IF ~ Saved(b, bs, current_year)
        THEN [res |-> ErrorResponse(400, {"non_field_errors"}), books |-> bs]
        ELSE [res |-> Success(IF inst = {} THEN 201 ELSE 200, <<b.id>>),
              books |-> Book_save(b, bs, current_year)]

(***************************************************************************)
(* Write path of authors: AuthorSerializer.  Dates are years.              *)
(***************************************************************************)
NoAuthorData == [name |-> {}, bio |-> {}, birth_date |-> {}, nationality |-> {}]

\* AuthorSerializer.validate_name
validate_name(value) ==
    /\ Strip(value) # <<>>
    /\ ~ (Len(Strip(value)) < AuthorNameMinLength)
    /\ ~ (Len(Strip(value)) > AuthorNameMaxLength)

\* AuthorSerializer.validate_birth_date
validate_birth_date(value, current_year) == ~ (value > current_year)

AuthorFieldErrors(data, partial, current_year) ==
    {k \in DOMAIN data :
        \/ data[k] = {} /\ ~ partial /\ k = "name"
        \/ data[k] # {} /\ k = "name" /\ ~ validate_name(The(data[k]))
        \/ data[k] # {} /\ k = "birth_date"
              /\ ~ validate_birth_date(The(data[k]), current_year)}

NewAuthor(data, id, now) ==
    [id |-> id, name |-> Strip(The(data.name)), bio |-> Or(data.bio, <<>>),
     birth_date |-> data.birth_date, nationality |-> Or(data.nationality, <<>>),
     created_at |-> now]

UpdatedAuthor(a, data) ==
    [id |-> a.id,
     name |-> IF data.name = {} THEN a.name ELSE Strip(The(data.name)),
     bio |-> Or(data.bio, a.bio),
     birth_date |-> IF data.birth_date = {} THEN a.birth_date ELSE data.birth_date,
     nationality |-> Or(data.nationality, a.nationality),
     created_at |-> a.created_at]

\* The answer of a write on the author collection: [res, authors]
AuthorWrite(method, data, inst, id, as, now, current_year) ==
    LET errs == AuthorFieldErrors(data, method = "partial_update", current_year)
        a == IF inst = {} THEN NewAuthor(data, id, now) ELSE UpdatedAuthor(The(inst), data)
    IN  IF errs # {} THEN [res |-> ErrorResponse(400, errs), authors |-> as]
        ELSE [res |-> Success(IF inst = {} THEN 201 ELSE 200, <<a.id>>),
              authors |-> {o \in as : o.id # a.id} \cup {a}]

(***************************************************************************)
(* Aggregation actions of the viewsets.                                    *)
(***************************************************************************)
\* BookViewSet.in_stock: the available books under Book.Meta.ordering
InStockResponses(req, bs) ==
    {Paginate(seq, req.page, req.page_size) :
        seq \in OrderBy(BookRows({b \in bs : b.in_stock}), BookMetaOrdering)}

\* Avg('books__rating') of an author as [sum, n] over the rated books
AvgRating(a, bs) ==
    LET rated == {b \in BooksOf(bs, a) : b.rating # {}}
    IN  [sum |-> SumOver(rated, [b \in rated |-> The(b.rating)]),
         n |-> Cardinality(rated)]

\* order_by('-avg_rating'): the larger average first, NULL last
AvgCmp(x, y) ==
    IF x.n = 0 /\ y.n = 0 THEN 0
    ELSE IF x.n = 0 THEN 1
    ELSE IF y.n = 0 THEN 0 - 1
    ELSE IntCmp(y.sum * x.n, x.sum * y.n)

\* Avg('price') of an author's books: NULL when there is none
AvgPrice(a, bs) ==
    IF BooksOf(bs, a) = {} THEN {}
    ELSE {[sum |-> SumOver(BooksOf(bs, a), [b \in BooksOf(bs, a) |-> b.price]),
           n |-> Cardinality(BooksOf(bs, a))]}

\* The stats of AuthorViewSet.statistics.  An average is an option of
\* [sum, n], the quotient sum / n in hundredths; {} is null.
AuthorStatistics(a, bs) ==
    [total_books |-> Cardinality(BooksOf(bs, a)),
     average_rating |-> IF AvgRating(a, bs).n = 0 THEN {} ELSE {AvgRating(a, bs)},
     genres |-> {[genre |-> g,
                  count |-> Cardinality({b \in BooksOf(bs, a) : b.genre = g})] :
                    g \in {b.genre : b \in BooksOf(bs, a)}},
     publication_years |->
         {[publication_year |-> y,
           count |-> Cardinality({b \in BooksOf(bs, a) : b.publication_year = y})] :
             y \in {b.publication_year : b \in BooksOf(bs, a)}},
     price_range |-> [min_price |-> AvgPrice(a, bs), max_price |-> AvgPrice(a, bs)]]

RECURSIVE TopRatedOrders(_, _)
TopRatedOrders(as, bs) ==
    IF as = {} THEN {<<>>}
    ELSE LET first == {m \in as : \A a \in as :
                          AvgCmp(AvgRating(m, bs), AvgRating(a, bs)) <= 0}
         IN  UNION {{<<m.id>> \o t : t \in TopRatedOrders(as \ {m}, bs)} : m \in first}

\* (mutant) top_rated without the filter on book_count
TopRatedOfAll(req, as, bs) ==
    LET limit == IF req.limit.t = "none" THEN 10 ELSE req.limit.v
    IN  IF req.limit.t = "bad" \/ limit < 0 THEN {ErrorResponse(500, {"error"})}
        ELSE {Success(200, SubSeq(seq, 1, Min(limit, Len(seq)))) :
                 seq \in TopRatedOrders(as, bs)}

\* AuthorViewSet.top_rated: int(limit) and a negative slice bound raise
TopRatedResponses(req, as, bs) ==
    LET limit == IF req.limit.t = "none" THEN 10 ELSE req.limit.v
    IN  IF req.limit.t = "bad" \/ limit < 0 THEN {ErrorResponse(500, {"error"})}
        ELSE {Success(200, SubSeq(seq, 1, Min(limit, Len(seq)))) :
                 seq \in TopRatedOrders({a \in as : BooksOf(bs, a) # {}}, bs)}

(***************************************************************************)
(* State.  authors, books: the stored collections.  nextId: the next       *)
(* primary keys.  clock: the time stamp of the next create.  year: the     *)
(* current calendar year.  cache: the page cache of the two list handlers, *)
(* a set of [key, val].  resp: the last request answered and its response; *)
(* tick flips whenever a write request is answered.  scan: a client        *)
(* reading the pages of one list request in turn.                          *)
(***************************************************************************)
\* social_media_api (posts/models.py, posts/views.py).  Users are the rows
\* of auth.User; 0 is a request without credentials.  A post is
\* [id, author, title, content, created_at], a comment
\* [id, post, author, content].  following[u] is Profile.following of the
\* Profile of u; a user has a Profile only when a row was made for it.
Users == {1, 2, 3}

Anonymous == 0

\* the users with a Profile row
Profiles == {1, 2}

\* a pk of no user
NoUser == 9

NoReply ==
    [user |-> Anonymous, kind |-> "none", pk |-> 0, status |-> 0,
     results |-> <<>>]

\* the posts made before the first request: one of user 2, then one of user 3
Post1 ==
    [id |-> 1, author |-> 2, title |-> <<"a">>, content |-> <<"x">>,
     created_at |-> 1]

Post2 ==
    [id |-> 2, author |-> 3, title |-> <<"a">>, content |-> <<"x">>,
     created_at |-> 2]

InitSocial ==
    /\ following = [u \in Profiles |-> {}]
    /\ posts = {Post1, Post2}
    /\ comments = {}
    /\ made = 2
    /\ reply = NoReply

\* the response to the request (user, kind, pk)
Reply(user, kind, pk, status, results) ==
    reply' = [user |-> user, kind |-> kind, pk |-> pk, status |-> status,
              results |-> results]

\* IsAuthenticated, and IsAuthenticatedOrReadOnly on an unsafe method, refuse
\* a request without credentials: 401 or 403, by the authentication classes
NotAuthenticated == {401, 403}

\* (mutant) follow without the check of the target against the requester
FollowAnyone(u, t, fs) ==
    IF t \notin Users THEN [status |-> 404, following |-> fs]
    ELSE IF u \notin DOMAIN fs THEN [status |-> 500, following |-> fs]
    ELSE [status |-> 200, following |-> [fs EXCEPT ![u] = @ \cup {t}]]

\* follow_user after authentication: [status, following].  request.user.profile
\* raises RelatedObjectDoesNotExist for a user without a Profile.
FollowUser(u, t, fs) ==
    IF t \notin Users THEN [status |-> 404, following |-> fs]
    ELSE IF t = u THEN [status |-> 400, following |-> fs]
    ELSE IF u \notin DOMAIN fs THEN [status |-> 500, following |-> fs]
    ELSE [status |-> 200, following |-> [fs EXCEPT ![u] = @ \cup {t}]]

\* unfollow_user after authentication: [status, following]
UnfollowUser(u, t, fs) ==
    IF t \notin Users THEN [status |-> 404, following |-> fs]
    ELSE IF t = u THEN [status |-> 400, following |-> fs]
    ELSE IF u \notin DOMAIN fs THEN [status |-> 500, following |-> fs]
    ELSE [status |-> 200, following |-> [fs EXCEPT ![u] = @ \ {t}]]

\* POST follow/<user_id>/
Follow(u, t) ==
    /\ IF u = Anonymous
       THEN /\ \E st \in NotAuthenticated : Reply(u, "follow", t, st, <<>>)
            /\ UNCHANGED following
       ELSE LET res == FollowUser(u, t, following)
            IN  /\ Reply(u, "follow", t, res.status, <<>>)
                /\ following' = res.following
    /\ UNCHANGED <<posts, comments, made, catalogue>>

\* POST unfollow/<user_id>/
Unfollow(u, t) ==
    /\ IF u = Anonymous
       THEN /\ \E st \in NotAuthenticated : Reply(u, "unfollow", t, st, <<>>)
            /\ UNCHANGED following
       ELSE LET res == UnfollowUser(u, t, following)
            IN  /\ Reply(u, "unfollow", t, res.status, <<>>)
                /\ following' = res.following
    /\ UNCHANGED <<posts, comments, made, catalogue>>

\* (mutant) the feed without the restriction to the followed authors
AllPosts(u, fs, ps) == ps

\* FeedView.get_queryset: the posts of the users u follows
FeedPosts(u, fs, ps) == {p \in ps : p.author \in fs[u]}

\* order_by('-created_at'): the orders of ps the store can return, as ids
NewestFirst(ps) ==
    {seq \in [1..Cardinality(ps) -> {p.id : p \in ps}] :
        /\ \A i, j \in DOMAIN seq : i # j => seq[i] # seq[j]
        /\ \A i, j \in DOMAIN seq :
              i < j => (CHOOSE p \in ps : p.id = seq[i]).created_at
                         >= (CHOOSE p \in ps : p.id = seq[j]).created_at}

\* GET feed/
Feed(u) ==
    /\ IF u = Anonymous
       THEN \E st \in NotAuthenticated : Reply(u, "feed", 0, st, <<>>)
       ELSE IF u \notin DOMAIN following
       THEN Reply(u, "feed", 0, 500, <<>>)
       ELSE \E seq \in NewestFirst(FeedPosts(u, following, posts)) :
                Reply(u, "feed", 0, 200, seq)
    /\ UNCHANGED <<following, posts, comments, made, catalogue>>

\* PostSerializer.is_valid: title and content are required and not blank
ValidPost(data) ==
    data.title # <<>> /\ Len(data.title) <= 200 /\ data.content # <<>>

\* CommentSerializer.is_valid: post is the key of a post, content not blank
ValidComment(data, ps) ==
    data.content # <<>> /\ \E p \in ps : p.id = data.post

\* PostListCreateView: POST posts/; the author is the requester
CreatePost(u, data) ==
    /\ made < MaxMade
    /\ IF u = Anonymous
       THEN /\ \E st \in NotAuthenticated : Reply(u, "create_post", 0, st, <<>>)
            /\ UNCHANGED <<posts, made>>
       ELSE IF ~ValidPost(data)
       THEN Reply(u, "create_post", 0, 400, <<>>) /\ UNCHANGED <<posts, made>>
       ELSE /\ posts' = posts \cup {[id |-> made + 1, author |-> u,
                                     title |-> data.title,
                                     content |-> data.content,
                                     created_at |-> made + 1]}
            /\ made' = made + 1
            /\ Reply(u, "create_post", made + 1, 201, <<>>)
    /\ UNCHANGED <<following, comments, catalogue>>

\* CommentListCreateView: POST posts/<post_id>/comments/; the post saved is
\* the post of the URL, the author is the requester
CreateComment(u, post_id, data) ==
    /\ made < MaxMade
    /\ IF u = Anonymous
       THEN /\ \E st \in NotAuthenticated :
                   Reply(u, "create_comment", post_id, st, <<>>)
            /\ UNCHANGED <<comments, made>>
       ELSE IF ~ValidComment(data, posts)
       THEN /\ Reply(u, "create_comment", post_id, 400, <<>>)
            /\ UNCHANGED <<comments, made>>
       ELSE IF \A p \in posts : p.id # post_id
       THEN /\ Reply(u, "create_comment", post_id, 404, <<>>)
            /\ UNCHANGED <<comments, made>>
       ELSE /\ comments' = comments \cup {[id |-> made + 1, post |-> post_id,
                                           author |-> u,
                                           content |-> data.content]}
            /\ made' = made + 1
            /\ Reply(u, "create_comment", post_id, 201, <<>>)
    /\ UNCHANGED <<following, posts, catalogue>>

\* The status of perform_update or perform_destroy on an object of author
\* owner asked by u, ok being the status of the success.  For another user
\* the handler evaluates permissions.PermissionDenied, a name the module
\* rest_framework.permissions does not have: the AttributeError leaves the
\* view and the response is 500.
OwnerOnly(u, owner, ok) == IF owner = u THEN ok ELSE 500

\* PostDetailView: PUT posts/<pk>/
UpdatePost(u, pk, data) ==
    /\ IF u = Anonymous
       THEN /\ \E st \in NotAuthenticated : Reply(u, "update_post", pk, st, <<>>)
            /\ UNCHANGED posts
       ELSE IF \A p \in posts : p.id # pk
       THEN Reply(u, "update_post", pk, 404, <<>>) /\ UNCHANGED posts
       ELSE IF ~ValidPost(data)
       THEN Reply(u, "update_post", pk, 400, <<>>) /\ UNCHANGED posts
       ELSE LET p == CHOOSE q \in posts : q.id = pk
                st == OwnerOnly(u, p.author, 200)
            IN  /\ Reply(u, "update_post", pk, st, <<>>)
                /\ posts' = IF st = 200
                            THEN (posts \ {p}) \cup
                                 {[p EXCEPT !.title = data.title,
                                            !.content = data.content]}
                            ELSE posts
    /\ UNCHANGED <<following, comments, made, catalogue>>

\* PostDetailView: DELETE posts/<pk>/; the comments go with the post
DestroyPost(u, pk) ==
    /\ IF u = Anonymous
       THEN /\ \E st \in NotAuthenticated : Reply(u, "destroy_post", pk, st, <<>>)
            /\ UNCHANGED <<posts, comments>>
       ELSE IF \A p \in posts : p.id # pk
       THEN /\ Reply(u, "destroy_post", pk, 404, <<>>)
            /\ UNCHANGED <<posts, comments>>
       ELSE LET p == CHOOSE q \in posts : q.id = pk
                st == OwnerOnly(u, p.author, 204)
            IN  /\ Reply(u, "destroy_post", pk, st, <<>>)
                /\ posts' = IF st = 204 THEN posts \ {p} ELSE posts
                /\ comments' = IF st = 204
                               THEN {c \in comments : c.post # pk}
                               ELSE comments
    /\ UNCHANGED <<following, made, catalogue>>

\* CommentDetailView: PUT comments/<pk>/
UpdateComment(u, pk, data) ==
    /\ IF u = Anonymous
       THEN /\ \E st \in NotAuthenticated :
                   Reply(u, "update_comment", pk, st, <<>>)
            /\ UNCHANGED comments
       ELSE IF \A c \in comments : c.id # pk
       THEN Reply(u, "update_comment", pk, 404, <<>>) /\ UNCHANGED comments
       ELSE IF ~ValidComment(data, posts)
       THEN Reply(u, "update_comment", pk, 400, <<>>) /\ UNCHANGED comments
       ELSE LET c == CHOOSE d \in comments : d.id = pk
                st == OwnerOnly(u, c.author, 200)
            IN  /\ Reply(u, "update_comment", pk, st, <<>>)
                /\ comments' = IF st = 200
                               THEN (comments \ {c}) \cup
                                    {[c EXCEPT !.post = data.post,
                                               !.content = data.content]}
                               ELSE comments
    /\ UNCHANGED <<following, posts, made, catalogue>>

\* CommentDetailView: DELETE comments/<pk>/
DestroyComment(u, pk) ==
    /\ IF u = Anonymous
       THEN /\ \E st \in NotAuthenticated :
                   Reply(u, "destroy_comment", pk, st, <<>>)
            /\ UNCHANGED comments
       ELSE IF \A c \in comments : c.id # pk
       THEN Reply(u, "destroy_comment", pk, 404, <<>>) /\ UNCHANGED comments
       ELSE LET c == CHOOSE d \in comments : d.id = pk
                st == OwnerOnly(u, c.author, 204)
            IN  /\ Reply(u, "destroy_comment", pk, st, <<>>)
                /\ comments' = IF st = 204 THEN comments \ {c} ELSE comments
    /\ UNCHANGED <<following, posts, made, catalogue>>

NoResp ==
    [req |-> [view |-> "none", method |-> "none", auth |-> FALSE],
     res |-> ErrorResponse(0, {}), cached |-> FALSE, tick |-> 0]

NoScan == [state |-> "idle", req |-> NoResp.req, page |-> 0, acc |-> <<>>]

\* a list request between its COUNT query and its page query: the count it
\* read and the books stored when it read it
NoPending == [state |-> "idle", req |-> NoResp.req, count |-> 0, pre |-> {}]

\* the create requests in progress, one per client: where the handler stands
\* ("idle", "valid" after is_valid, "clean" after full_clean, "done"), its
\* request and its response
Clients == {1, 2}

NoCreating ==
    [c \in Clients |-> [state |-> "idle", req |-> NoResp.req,
                        res |-> ErrorResponse(0, {})]]

store == <<authors, books, nextId, clock, year>>

\* the collections a deployment can hold: every book's author is stored
Stores == SUBSET FixtureBooks

InitQuery ==
    /\ authors = FixtureAuthors
    /\ books \in Stores
    /\ nextId = [book |-> 5, author |-> 4]
    /\ clock = 8
    /\ year = StartYear
    /\ cache = {}
    /\ resp = NoResp
    /\ scan = NoScan
    /\ pending = NoPending
    /\ creating = NoCreating
    /\ InitSocial

Answer(req, res, cached) ==
    resp' = [req |-> req, res |-> res, cached |-> cached,
             tick |-> IF req.method \in SafeMethods
                      THEN resp.tick ELSE 1 - resp.tick]

\* cache_page: a response is replayed while its entry lives; a computed
\* response with status 200 is stored under the request
CachedList(req, responses) ==
    IF \E e \in cache : e.key = req
    THEN /\ Answer(req, (CHOOSE e \in cache : e.key = req).val, TRUE)
         /\ UNCHANGED cache
    ELSE \E r \in responses :
            /\ Answer(req, r, FALSE)
            /\ IF r.status # 200 THEN UNCHANGED cache
               ELSE IF Cardinality(cache) < MaxCache
               THEN cache' = cache \cup {[key |-> req, val |-> r]}
               ELSE \E old \in cache :
                        cache' = (cache \ {old}) \cup {[key |-> req, val |-> r]}

\* BookViewSet.list
ListBooks(req) ==
    /\ scan.state # "run"
    /\ CachedList(req, BookListResponses(req, books, authors))
    /\ UNCHANGED <<store, scan, pending, creating, social>>

\* AuthorViewSet.list
ListAuthors(req) ==
    /\ scan.state # "run"
    /\ CachedList(req, AuthorListResponses(req, books, authors))
    /\ UNCHANGED <<store, scan, pending, creating, social>>

\* the timeout of a cache entry passes
Expire ==
    \E e \in cache :
        /\ cache' = cache \ {e}
        /\ UNCHANGED <<store, resp, scan, pending, creating, social>>

ListResponses(req) ==
    IF req.view = "books" THEN BookListResponses(req, books, authors)
    ELSE AuthorListResponses(req, books, authors)

\* A client reads page 1 of req
StartScan(req) ==
    /\ scan.state # "run"
    /\ req.page = Num(1)
    /\ CachedList(req, ListResponses(req))
    /\ scan' = IF resp'.res.status # 200 THEN NoScan
               ELSE [state |-> IF resp'.res.next = {} THEN "done" ELSE "run",
                     req |-> req, page |-> 1, acc |-> resp'.res.results]
    /\ UNCHANGED <<store, pending, creating, social>>

\* The client follows the next link until there is none
NextPage ==
    /\ scan.state = "run"
    /\ LET req == [scan.req EXCEPT !.page = Num(scan.page + 1)]
       IN  /\ CachedList(req, ListResponses(req))
           /\ scan' = IF resp'.res.status # 200
                      THEN [scan EXCEPT !.state = "done"]
                      ELSE [scan EXCEPT
                               !.state = IF resp'.res.next = {} THEN "done" ELSE "run",
                               !.page = scan.page + 1,
                               !.acc = scan.acc \o resp'.res.results]
    /\ UNCHANGED <<store, pending, creating, social>>

\* BookViewSet.list up to the COUNT query of the paginator.  A replayed
\* response, an invalid filter and an invalid page are answered at once;
\* otherwise the page query is still to come.
CountQuery(req) ==
    /\ req.view = "books"
    /\ req.method = "list"
    /\ scan.state # "run"
    /\ pending.state = "idle"
    /\ LET count == Cardinality(BookCandidates(req, books, authors))
       IN  IF \/ \E e \in cache : e.key = req
              \/ BookFilterErrors(req.filter, authors) # {}
              \/ ~ ValidPage(req.page, count, GetPageSize(req.page_size))
           THEN /\ CachedList(req, BookListResponses(req, books, authors))
                /\ UNCHANGED pending
           ELSE /\ pending' = [state |-> "counted", req |-> req, count |-> count,
                               pre |-> books]
                /\ UNCHANGED <<cache, resp>>
    /\ UNCHANGED <<store, scan, creating, social>>

\* Paginator.page + get_paginated_response with the count read before: the
\* slice [bottom:top] of the queryset, top cut at the count, and the count
\* and the number of pages as they were read
PageOfCounted(count, seq, page, psize) ==
    LET per == GetPageSize(psize)
        n == PageNumber(page)
        pages == NumPages(count, per)
    IN  [status |-> 200, errors |-> {}, count |-> count,
         next |-> IF n < pages THEN {n + 1} ELSE {},
         previous |-> IF n > 1 THEN {n - 1} ELSE {},
         page_size |-> per, total_pages |-> pages, current_page |-> n,
         results |-> SubSeq(seq, (n - 1) * per + 1,
                            Min(Min(n * per, count), Len(seq)))]

\* BookViewSet.list from the page query on: the rows are read from the
\* books stored now, the response is returned and stored by cache_page
PageQuery ==
    /\ pending.state = "counted"
    /\ LET req == pending.req
           ord == GetOrdering(req.ordering, BookOrderingFields, BookViewOrdering)
       IN  \E seq \in OrderBy(BookRows(BookCandidates(req, books, authors)), ord) :
               CachedList(req, {PageOfCounted(pending.count, seq, req.page,
                                              req.page_size)})
    /\ pending' = [pending EXCEPT !.state = "done"]
    /\ UNCHANGED <<store, scan, creating, social>>

Forbidden == ErrorResponse(403, {"detail"})

NotFound == ErrorResponse(404, {"detail"})

\* get_object
BookByPk(pk) == {b \in books : b.id = pk}

AuthorByPk(pk) == {a \in authors : a.id = pk}

\* CreateModelMixin.create with BookSerializer
PostBook(req) ==
    /\ req.method = "create"
    /\ nextId.book <= MaxBookId
    /\ IF ~ HasPermission(req.method, req.auth)
       THEN Answer(req, Forbidden, FALSE) /\ UNCHANGED <<books, nextId, clock>>
       ELSE LET w == BookWrite(req.method, req.data, {}, nextId.book, books,
                               authors, clock, year)
            IN  /\ Answer(req, w.res, FALSE)
                /\ books' = w.books
                /\ IF w.res.status = 201
                   THEN /\ nextId' = [nextId EXCEPT !.book = @ + 1]
                        /\ clock' = clock + 1
                   ELSE UNCHANGED <<nextId, clock>>
    /\ UNCHANGED <<authors, year, cache, scan, pending, creating, social>>

\* UpdateModelMixin.update / partial_update with BookSerializer
PutBook(req) ==
    /\ req.method \in {"update", "partial_update"}
    /\ IF ~ HasPermission(req.method, req.auth)
       THEN Answer(req, Forbidden, FALSE) /\ UNCHANGED books
       ELSE IF BookByPk(req.pk) = {}
       THEN Answer(req, NotFound, FALSE) /\ UNCHANGED books
       ELSE LET w == BookWrite(req.method, req.data, BookByPk(req.pk), req.pk,
                               books, authors, clock, year)
            IN  Answer(req, w.res, FALSE) /\ books' = w.books
    /\ UNCHANGED <<authors, nextId, clock, year, cache, scan, pending, creating, social>>

\* DestroyModelMixin.destroy
DeleteBook(req) ==
    /\ req.method = "destroy"
    /\ IF ~ HasPermission(req.method, req.auth)
       THEN Answer(req, Forbidden, FALSE) /\ UNCHANGED books
       ELSE IF BookByPk(req.pk) = {}
       THEN Answer(req, NotFound, FALSE) /\ UNCHANGED books
       ELSE Answer(req, Success(204, <<>>), FALSE) /\ books' = books \ BookByPk(req.pk)
    /\ UNCHANGED <<authors, nextId, clock, year, cache, scan, pending, creating, social>>

\* (mutant) a book table without unique constraints
NoConstraint(b, bs) == TRUE

\* the unique constraints of the book table: isbn (unique=True) and
\* unique_together; an INSERT that breaks one raises IntegrityError
Constraints(b, bs) ==
    /\ \A o \in bs : o.isbn # b.isbn
    /\ UniqueTogether(b, bs)

\* the answer of client c's create is res
Finish(c, res) ==
    /\ creating' = [creating EXCEPT ![c].state = "done", ![c].res = res]
    /\ Answer(creating[c].req, res, FALSE)

\* create up to serializer.is_valid(): the field validators, validate_isbn
\* with its exists() query, and validate, on the books stored now
IsValid(c, req) ==
    /\ req.method = "create"
    /\ req.view \in {"books", "books_generic"}
    /\ req.auth
    /\ creating[c].state = "idle"
    /\ LET errs == BookFieldErrors(req.data, FALSE, {}, books, authors, year)
       IN  IF errs # {}
           THEN /\ creating' = [creating EXCEPT
                                   ![c] = [state |-> "done", req |-> req,
                                           res |-> ErrorResponse(400, errs)]]
                /\ Answer(req, ErrorResponse(400, errs), FALSE)
           ELSE IF ~ validate(req.data, {}, books)
           THEN /\ creating' = [creating EXCEPT
                                   ![c] = [state |-> "done", req |-> req,
                                           res |-> ErrorResponse(400, {"non_field_errors"})]]
                /\ Answer(req, ErrorResponse(400, {"non_field_errors"}), FALSE)
           ELSE /\ creating' = [creating EXCEPT
                                   ![c] = [state |-> "valid", req |-> req,
                                           res |-> ErrorResponse(0, {})]]
                /\ UNCHANGED resp
    /\ UNCHANGED <<store, cache, scan, pending, social>>

\* serializer.save() up to Book.save's full_clean(), with its uniqueness
\* queries on the books stored now; BookSerializer.create turns the
\* exception into a validation error
FullClean(c) ==
    /\ creating[c].state = "valid"
    /\ IF full_clean(NewBook(creating[c].req.data, nextId.book, clock), books, year)
       THEN creating' = [creating EXCEPT ![c].state = "clean"] /\ UNCHANGED resp
       ELSE Finish(c, ErrorResponse(400, {"non_field_errors"}))
    /\ UNCHANGED <<store, cache, scan, pending, social>>

\* super().save(): the INSERT.  An IntegrityError is caught by
\* BookSerializer.create and answered 400.
Insert(c) ==
    /\ creating[c].state = "clean"
    /\ nextId.book <= MaxBookId
    /\ LET b == NewBook(creating[c].req.data, nextId.book, clock)
       IN  IF Constraints(b, books)
           THEN /\ books' = books \cup {b}
                /\ nextId' = [nextId EXCEPT !.book = @ + 1]
                /\ clock' = clock + 1
                /\ Finish(c, Success(201, <<b.id>>))
           ELSE /\ Finish(c, ErrorResponse(400, {"non_field_errors"}))
                /\ UNCHANGED <<books, nextId, clock>>
    /\ UNCHANGED <<authors, year, cache, scan, pending, social>>

\* Book(...).save() called outside the serializers (admin, shell, tests):
\* full_clean, then the row is written; a ValidationError leaves the store
ModelSave(data) ==
    /\ nextId.book <= MaxBookId
    /\ data.title # {} /\ data.author_id # {} /\ data.isbn # {}
    /\ data.publication_year # {} /\ data.price # {}
    /\ \E a \in authors : {a.id} = data.author_id
    /\ LET b == NewBook(data, nextId.book, clock)
       IN  /\ Saved(b, books, year)
           /\ books' = Book_save(b, books, year)
    /\ nextId' = [nextId EXCEPT !.book = @ + 1]
    /\ clock' = clock + 1
    /\ UNCHANGED <<authors, year, cache, resp, scan, pending, creating, social>>

\* the calendar year changes while the process runs
NewYear ==
    /\ year < StartYear + MaxYears
    /\ year' = year + 1
    /\ UNCHANGED <<authors, books, nextId, clock, cache, resp, scan, pending, creating, social>>

\* BookViewSet.create
CreateBook(req) == req.view = "books" /\ PostBook(req)

\* BookViewSet.update, BookViewSet.partial_update
UpdateBook(req) == req.view = "books" /\ PutBook(req)

\* BookViewSet.destroy
DestroyBook(req) == req.view = "books" /\ DeleteBook(req)

\* BookCreateView.create
BookCreateView(req) == req.view = "books_generic" /\ PostBook(req)

\* BookUpdateView.update
BookUpdateView(req) == req.view = "books_generic" /\ PutBook(req)

\* BookDeleteView.destroy
BookDeleteView(req) == req.view = "books_generic" /\ DeleteBook(req)

\* BookViewSet.retrieve
RetrieveBook(req) ==
    /\ req.view = "books"
    /\ req.method = "retrieve"
    /\ Answer(req, IF BookByPk(req.pk) = {} THEN NotFound
                   ELSE Success(200, <<req.pk>>), FALSE)
    /\ UNCHANGED <<store, cache, scan, pending, creating, social>>

\* BookViewSet.in_stock
InStock(req) ==
    /\ req.view = "books"
    /\ req.method = "in_stock"
    /\ \E r \in InStockResponses(req, books) : Answer(req, r, FALSE)
    /\ UNCHANGED <<store, cache, scan, pending, creating, social>>

\* AuthorViewSet.create
CreateAuthor(req) ==
    /\ req.view = "authors"
    /\ req.method = "create"
    /\ nextId.author <= MaxAuthorId
    /\ IF ~ HasPermission(req.method, req.auth)
       THEN Answer(req, Forbidden, FALSE) /\ UNCHANGED <<authors, nextId, clock>>
       ELSE LET w == AuthorWrite(req.method, req.data, {}, nextId.author, authors,
                                 clock, year)
            IN  /\ Answer(req, w.res, FALSE)
                /\ authors' = w.authors
                /\ IF w.res.status = 201
                   THEN /\ nextId' = [nextId EXCEPT !.author = @ + 1]
                        /\ clock' = clock + 1
                   ELSE UNCHANGED <<nextId, clock>>
    /\ UNCHANGED <<books, year, cache, scan, pending, creating, social>>

\* AuthorViewSet.update, AuthorViewSet.partial_update
UpdateAuthor(req) ==
    /\ req.view = "authors"
    /\ req.method \in {"update", "partial_update"}
    /\ IF ~ HasPermission(req.method, req.auth)
       THEN Answer(req, Forbidden, FALSE) /\ UNCHANGED authors
       ELSE IF AuthorByPk(req.pk) = {}
       THEN Answer(req, NotFound, FALSE) /\ UNCHANGED authors
       ELSE LET w == AuthorWrite(req.method, req.data, AuthorByPk(req.pk), req.pk,
                                 authors, clock, year)
            IN  Answer(req, w.res, FALSE) /\ authors' = w.authors
    /\ UNCHANGED <<books, nextId, clock, year, cache, scan, pending, creating, social>>

\* (mutant) the books of a deleted author stay
NoCascade(bs, pk) == bs

\* Book.author on_delete=CASCADE: the books left when author pk is deleted
Cascade(bs, pk) == {b \in bs : b.author # pk}

\* AuthorViewSet.destroy: the books of the author go with it (CASCADE)
DestroyAuthor(req) ==
    /\ req.view = "authors"
    /\ req.method = "destroy"
    /\ IF ~ HasPermission(req.method, req.auth)
       THEN Answer(req, Forbidden, FALSE) /\ UNCHANGED <<authors, books>>
       ELSE IF AuthorByPk(req.pk) = {}
       THEN Answer(req, NotFound, FALSE) /\ UNCHANGED <<authors, books>>
       ELSE /\ Answer(req, Success(204, <<>>), FALSE)
            /\ authors' = authors \ AuthorByPk(req.pk)
            /\ books' = Cascade(books, req.pk)
    /\ UNCHANGED <<nextId, clock, year, cache, scan, pending, creating, social>>

\* AuthorViewSet.retrieve
RetrieveAuthor(req) ==
    /\ req.view = "authors"
    /\ req.method = "retrieve"
    /\ Answer(req, IF AuthorByPk(req.pk) = {} THEN NotFound
                   ELSE Success(200, <<req.pk>>), FALSE)
    /\ UNCHANGED <<store, cache, scan, pending, creating, social>>

\* AuthorViewSet.top_rated
TopRated(req) ==
    /\ req.view = "authors"
    /\ req.method = "top_rated"
    /\ \E r \in TopRatedResponses(req, authors, books) : Answer(req, r, FALSE)
    /\ UNCHANGED <<store, cache, scan, pending, creating, social>>

\* AuthorViewSet.statistics
Statistics(req) ==
    /\ req.view = "authors"
    /\ req.method = "statistics"
    /\ Answer(req, IF AuthorByPk(req.pk) = {} THEN NotFound
                   ELSE Success(200, <<AuthorStatistics(The(AuthorByPk(req.pk)),
                                                        books)>>), FALSE)
    /\ UNCHANGED <<store, cache, scan, pending, creating, social>>

\* BookViewSet.recent: int(years) raises on a text that is no integer
Recent(req) ==
    /\ req.view = "books"
    /\ req.method = "recent"
    /\ LET years == IF req.years.t = "none" THEN 2 ELSE req.years.v
           recent_books == {b \in books : b.publication_year >= year - years}
       IN  IF req.years.t = "bad"
           THEN Answer(req, ErrorResponse(500, {"error"}), FALSE)
           ELSE \E seq \in OrderBy(BookRows(recent_books), BookMetaOrdering) :
                    Answer(req, Paginate(seq, req.page, req.page_size), FALSE)
    /\ UNCHANGED <<store, cache, scan, pending, creating, social>>

\* BookViewSet.by_genre: the genre parameter is required
ByGenre(req) ==
    /\ req.view = "books"
    /\ req.method = "by_genre"
    /\ IF req.genre = ""
       THEN Answer(req, ErrorResponse(400, {"error"}), FALSE)
       ELSE \E seq \in OrderBy(BookRows({b \in books :
                             GenreLower(b.genre) = GenreLower(req.genre)}),
                                BookMetaOrdering) :
                Answer(req, Paginate(seq, req.page, req.page_size), FALSE)
    /\ UNCHANGED <<store, cache, scan, pending, creating, social>>

\* BookViewSet.price_range: float() of both parameters, 0 and 1000 by default
PriceRange(req) ==
    /\ req.view = "books"
    /\ req.method = "price_range"
    /\ LET min_price == IF req.min_price.t = "none" THEN 0 ELSE req.min_price.v
           max_price == IF req.max_price.t = "none" THEN 100000 ELSE req.max_price.v
       IN  IF req.min_price.t = "bad" \/ req.max_price.t = "bad"
           THEN Answer(req, ErrorResponse(400, {"error"}), FALSE)
           ELSE \E seq \in OrderBy(BookRows({b \in books :
                                 b.price >= min_price /\ b.price <= max_price}),
                                    BookMetaOrdering) :
                    Answer(req, Paginate(seq, req.page, req.page_size), FALSE)
    /\ UNCHANGED <<store, cache, scan, pending, creating, social>>

\* BookSearchView (generic_views.py): get_queryset, then the paginated list;
\* float() of a rating or price that is no number raises
BookSearchView(req) ==
    /\ req.view = "books_generic"
    /\ req.method = "search"
    /\ LET found ==
             {b \in books :
                 /\ req.q # <<>>
                       => \E fld \in BookSearchFields(b, authors) : IContains(fld, req.q)
                 /\ req.genre # "" => GenreLower(b.genre) = GenreLower(req.genre)
                 /\ Gte(b.rating, req.min_rating)
                 /\ Lte(b.rating, req.max_rating)
                 /\ Gte({b.price}, req.min_price)
                 /\ Lte({b.price}, req.max_price)}
       IN  IF "bad" \in {req.min_rating.t, req.max_rating.t,
                         req.min_price.t, req.max_price.t}
           THEN Answer(req, ErrorResponse(500, {"error"}), FALSE)
           ELSE \E seq \in OrderBy(BookRows(found), BookMetaOrdering) :
                    Answer(req, Paginate(seq, req.page, req.page_size), FALSE)
    /\ UNCHANGED <<store, cache, scan, pending, creating, social>>

(***************************************************************************)
(* Pagination: a client reading all pages (SpecScan) and single page       *)
(* requests (SpecPage).                                                    *)
(***************************************************************************)
ScanRequests ==
    {BookListRequest(NoBookFilter, <<>>, ord, Num(1), Num(ps), FALSE) :
        ord \in {<<>>, <<Asc("price")>>}, ps \in 1..2}
    \cup
    {AuthorListRequest(f, <<>>, <<>>, Num(1), Num(ps), FALSE) :
        f \in {NoAuthorFilter, [NoAuthorFilter EXCEPT !.book_genre = "fiction"]},
        ps \in 1..2}

NextScan ==
    \/ \E req \in ScanRequests : StartScan(req)
    \/ NextPage
    \/ Expire

SpecScan == InitQuery /\ [][NextScan]_vars

Pages == {None, Bad, Num(0)} \cup {Num(n) : n \in 1..MaxPage}

PageSizes == {None, Num(2)}

PageRequests ==
    {BookListRequest(NoBookFilter, <<>>, <<>>, p, ps, FALSE) :
        p \in Pages, ps \in PageSizes}
    \cup
    {AuthorListRequest(NoAuthorFilter, <<>>, <<>>, p, Num(1), FALSE) :
        p \in {Num(n) : n \in 1..MaxPage + 1}}
    \cup
    {AuthorListRequest(NoAuthorFilter, <<>>, <<>>, Num(2), Num(0), FALSE)}

NextPageSpec ==
    \/ \E req \in PageRequests : req.view = "books" /\ ListBooks(req)
    \/ \E req \in PageRequests : req.view = "authors" /\ ListAuthors(req)
    \/ Expire

SpecPage == InitQuery /\ [][NextPageSpec]_vars

(***************************************************************************)
(* Properties of pagination.                                               *)
(***************************************************************************)
IsList(r) == r.req.method = "list"

\* the rows that match the criteria of the list request req
MatchingRows(req) ==
    IF req.view = "books" THEN BookRows(BookCandidates(req, books, authors))
    ELSE AuthorCandidates(req, authors, books)

MatchingIds(req) == {r.e.id : r \in MatchingRows(req)}

EntityOf(req, id) ==
    IF req.view = "books" THEN CHOOSE b \in books : b.id = id
    ELSE CHOOSE a \in authors : a.id = id

OrderingOf(req) ==
    IF req.view = "books"
    THEN GetOrdering(req.ordering, BookOrderingFields, BookViewOrdering)
    ELSE GetOrdering(req.ordering, AuthorOrderingFields, AuthorViewOrdering)

NoDuplicates(seq) == \A i, j \in DOMAIN seq : seq[i] = seq[j] => i = j

\* C1: when a client has read pages 1..total_pages of a list under fixed
\* criteria, the concatenation holds every matching entity exactly once (none
\* twice, none omitted), in the requested order.
C1_PagesPartitionResult ==
    scan.state = "done"
        => /\ NoDuplicates(scan.acc)
           /\ Range(scan.acc) = MatchingIds(scan.req)
           /\ \A i, j \in DOMAIN scan.acc :
                i < j => RowCmp(EntityOf(scan.req, scan.acc[i]),
                                EntityOf(scan.req, scan.acc[j]),
                                OrderingOf(scan.req)) <= 0

\* the request of resp asks for a page n >= 1 past the last page
BeyondLastPage(r) ==
    /\ IsList(r)
    /\ r.req.page.t = "num"
    /\ r.req.page.v >= 1
    /\ r.req.page.v >
          NumPages(Cardinality(MatchingRows(r.req)), GetPageSize(r.req.page_size))

CeilDiv(count, per) ==
    CHOOSE n \in 0..count :
        n * per >= count /\ \A m \in 0..(n - 1) : m * per < count

\* next is present exactly when a later page exists, previous exactly when
\* an earlier one does
PageLinks(res) ==
    /\ res.next # {} <=> res.current_page < res.total_pages
    /\ res.previous # {} <=> res.current_page > 1

\* C12 as claimed: every paginated response reports total_pages =
\* ceil(count / page_size), also for count 0, with next present exactly when
\* current_page < total_pages and previous exactly when current_page > 1.
C12_TotalPagesIsCeiling ==
    (IsList(resp) /\ resp.res.status = 200)
        => /\ resp.res.total_pages = CeilDiv(resp.res.count, resp.res.page_size)
           /\ PageLinks(resp.res)

\* C12 amended: total_pages is ceil(count / page_size) for count > 0 and 1
\* for count 0 (the one, empty, first page); next is present exactly when
\* current_page < total_pages and previous exactly when current_page > 1.
C12_TotalPagesAtLeastOne ==
    (IsList(resp) /\ resp.res.status = 200)
        => /\ resp.res.count = Cardinality(MatchingRows(resp.req))
           /\ resp.res.total_pages =
                 IF resp.res.count = 0 THEN 1
                 ELSE CeilDiv(resp.res.count, resp.res.page_size)
           /\ 1 <= resp.res.current_page
           /\ resp.res.current_page <= resp.res.total_pages
           /\ PageLinks(resp.res)

\* C12 witness: the list of an empty collection reported one page
C12_Witness ==
    /\ IsList(resp)
    /\ resp.req.view = "books"
    /\ books = {}
    /\ resp.res.status = 200
    /\ resp.res.count = 0
    /\ resp.res.total_pages = 1
    /\ resp.res.current_page = 1

(***************************************************************************)
(* Page sizes (SpecSize): collections of up to max_page_size + 1 books, as *)
(* n successive creates leave them.                                        *)
(***************************************************************************)
DigitOf(n) == <<"0", "1", "2", "3", "4", "5", "6", "7", "8", "9">>[n + 1]

BulkIsbn(i) ==
    <<"9", "7", "8", "0", "0", "0", "0", "0", "0", "0",
      DigitOf(i \div 100), DigitOf((i \div 10) % 10), DigitOf(i % 10)>>

\* the i-th book created: no two share an ISBN or the triple
BulkBook(i) ==
    [id |-> i, title |-> <<"a">>, author |-> 1, isbn |-> BulkIsbn(i),
     publication_year |-> StartYear - i, genre |-> "other", pages |-> {},
     rating |-> {}, price |-> 1999, description |-> <<>>, in_stock |-> TRUE,
     created_at |-> 3 + i]

BulkBooks(n) == {BulkBook(i) : i \in 1..n}

\* the sizes at which the page size makes a difference
StoreSizes == {0, 1, page_size, page_size + 1, max_page_size + 1}

InitSize ==
    /\ authors = FixtureAuthors
    /\ \E n \in StoreSizes :
          /\ books = BulkBooks(n)
          /\ nextId = [book |-> n + 1, author |-> 4]
          /\ clock = n + 4
    /\ year = StartYear
    /\ cache = {}
    /\ resp = NoResp
    /\ scan = NoScan
    /\ pending = NoPending
    /\ creating = NoCreating
    /\ InitSocial

RequestedSizes ==
    {None, Bad, Num(0), Num(page_size + 1), Num(max_page_size),
     Num(max_page_size + 1), Num(2 * max_page_size)}

SizeRequests ==
    {BookListRequest(NoBookFilter, <<>>, <<>>, None, ps, FALSE) :
        ps \in RequestedSizes}
    \cup
    {BookListRequest(NoBookFilter, <<>>, <<>>, Num(2), ps, FALSE) :
        ps \in {None, Num(max_page_size)}}

NextSize ==
    \/ \E req \in SizeRequests : ListBooks(req)
    \/ Expire

SpecSize == InitSize /\ [][NextSize]_vars

\* C13: without a requested page_size the page size is 20; no page holds
\* more than 100 items: a requested page_size above 100 is cut to 100; and
\* the page_size the response reports is the size its results were sliced
\* with.
C13_PageSizeDefaultAndClamp ==
    (IsList(resp) /\ resp.res.status = 200)
        => /\ resp.req.page_size.t = "none" => resp.res.page_size = page_size
           /\ Len(resp.res.results) <= max_page_size
           /\ (resp.req.page_size.t = "num" /\ resp.req.page_size.v > max_page_size)
                 => resp.res.page_size = max_page_size
           /\ (resp.req.page_size.t = "num" /\ resp.req.page_size.v >= 1
                  /\ resp.req.page_size.v <= max_page_size)
                 => resp.res.page_size = resp.req.page_size.v
           /\ Len(resp.res.results) =
                 Min(resp.res.page_size,
                     resp.res.count - (resp.res.current_page - 1) * resp.res.page_size)

\* C13 witness: page_size=101 on 101 books returned a first page of 100
\* items, reported page_size 100 and a next page
C13_Witness ==
    /\ IsList(resp)
    /\ resp.req.page_size = Num(max_page_size + 1)
    /\ Cardinality(books) = max_page_size + 1
    /\ resp.res.status = 200
    /\ resp.res.page_size = max_page_size
    /\ Len(resp.res.results) = max_page_size
    /\ resp.res.next # {}

(***************************************************************************)
(* Filtering: range and malformed criteria (SpecRange), combined criteria  *)
(* (SpecCombine).                                                          *)
(***************************************************************************)
BookFilter1(k, v) == [NoBookFilter EXCEPT ![k] = v]

BookFilter2(k1, v1, k2, v2) == [NoBookFilter EXCEPT ![k1] = v1, ![k2] = v2]

AuthorFilter1(k, v) == [NoAuthorFilter EXCEPT ![k] = v]

AuthorFilter2(k1, v1, k2, v2) == [NoAuthorFilter EXCEPT ![k1] = v1, ![k2] = v2]

BooksFiltered(f) == BookListRequest(f, <<>>, <<>>, None, None, FALSE)

AuthorsFiltered(f) == AuthorListRequest(f, <<>>, <<>>, None, None, FALSE)

RangeFilters ==
    {NoBookFilter,
     BookFilter1("price_min", Num(1999)),
     BookFilter1("price_max", Num(1999)),
     BookFilter2("price_min", Num(2000), "price_max", Num(2999)),
     BookFilter2("rating_min", Num(450), "rating_max", Num(450)),
     BookFilter1("rating_min", Num(420)),
     BookFilter1("rating_max", Num(420)),
     BookFilter1("pages_min", Num(350)),
     BookFilter1("pages_max", Num(280)),
     BookFilter1("publication_year_min", Num(StartYear - 1)),
     BookFilter1("publication_year_max", Num(StartYear - 2)),
     BookFilter2("publication_year_min", Num(StartYear - 2),
                 "publication_year_max", Num(StartYear - 1)),
     BookFilter2("price_min", Num(1999), "rating_max", Num(450))}

MalformedFilters ==
    {BookFilter1("price_min", Bad),
     BookFilter2("price_min", Bad, "rating_max", Bad),
     BookFilter2("price_min", Bad, "genre", "fiction"),
     BookFilter2("rating_max", Bad, "price_max", Num(1999))}

RangeRequests ==
    {BooksFiltered(f) : f \in RangeFilters \cup MalformedFilters}
    \cup
    {AuthorsFiltered(f) :
        f \in {NoAuthorFilter, AuthorFilter1("min_books", Bad),
               AuthorFilter1("min_books", Num(1)),
               AuthorFilter2("min_books", Bad, "name", <<"a">>)}}

NextRange ==
    \/ \E req \in RangeRequests : req.view = "books" /\ ListBooks(req)
    \/ \E req \in RangeRequests : req.view = "authors" /\ ListAuthors(req)
    \/ Expire

SpecRange == InitQuery /\ [][NextRange]_vars

CombineRequests ==
    {BooksFiltered(f) :
        f \in {BookFilter1("genre", "fiction"),
               BookFilter1("price_min", Num(2000)),
               BookFilter1("in_stock", "true"),
               BookFilter1("author", Num(1)),
               BookFilter1("title", <<"a">>),
               BookFilter2("genre", "fiction", "price_min", Num(2000)),
               BookFilter2("genre", "fiction", "in_stock", "true"),
               BookFilter2("author", Num(1), "title", <<"a">>),
               [NoBookFilter EXCEPT !.genre = "fiction", !.in_stock = "true",
                                    !.author = Num(1), !.rating_min = Num(430)]}}
    \cup
    {AuthorsFiltered(f) :
        f \in {AuthorFilter1("min_books", Num(2)),
               AuthorFilter1("min_books", Num(4)),
               AuthorFilter1("max_books", Num(1)),
               AuthorFilter1("has_books", "true"),
               AuthorFilter1("has_books", "false"),
               AuthorFilter1("book_genre", "fiction"),
               AuthorFilter1("book_rating_min", Num(440)),
               AuthorFilter1("name", <<"a">>),
               AuthorFilter2("min_books", Num(4), "book_genre", "fiction"),
               AuthorFilter2("max_books", Num(1), "book_genre", "fiction"),
               AuthorFilter2("has_books", "true", "min_books", Num(2)),
               AuthorFilter2("has_books", "true", "book_genre", "fiction"),
               AuthorFilter2("book_genre", "fiction", "book_rating_min", Num(440)),
               AuthorFilter2("name", <<"a">>, "has_books", "true")}}

NextCombine ==
    \/ \E req \in CombineRequests : req.view = "books" /\ ListBooks(req)
    \/ \E req \in CombineRequests : req.view = "authors" /\ ListAuthors(req)
    \/ Expire

SpecCombine == InitQuery /\ [][NextCombine]_vars

(***************************************************************************)
(* Properties of filtering.                                                *)
(***************************************************************************)
NoFilterOf(req) == IF req.view = "books" THEN NoBookFilter ELSE NoAuthorFilter

NumberKeysOf(req) == IF req.view = "books" THEN BookNumberKeys ELSE AuthorNumberKeys

SuppliedKeys(req) ==
    {k \in DOMAIN req.filter : req.filter[k] # NoFilterOf(req)[k]}

MalformedKeys(req) == {k \in NumberKeysOf(req) : req.filter[k].t = "bad"}

\* req with the criteria of the keys ks removed
WithoutKeys(req, ks) ==
    [req EXCEPT !.filter = [k \in DOMAIN req.filter |->
                               IF k \in ks THEN NoFilterOf(req)[k] ELSE req.filter[k]]]

\* req with the criterion of key k as its only filter criterion
OnlyKey(req, k) == WithoutKeys(req, DOMAIN req.filter \ {k})

\* C5: a list request with a numeric filter value that does not parse is
\* answered 200 with the result of the same request without that criterion.
C5_MalformedCriterionIsDropped ==
    (IsList(resp) /\ MalformedKeys(resp.req) # {})
        => /\ resp.res.status = 200
           /\ resp.res \in ListResponses(WithoutKeys(resp.req, MalformedKeys(resp.req)))

\* C26: under any Author filter criteria the Author list holds each author
\* at most once, every listed author matches, and count is the number of
\* distinct matching authors.
C26_AuthorsListedOnce ==
    (IsList(resp) /\ resp.req.view = "authors" /\ resp.res.status = 200)
        => /\ NoDuplicates(resp.res.results)
           /\ Range(resp.res.results) = MatchingIds(resp.req)
           /\ resp.res.count = Cardinality(MatchingIds(resp.req))

\* C8: the entities a list request with several filter criteria returns are
\* exactly those returned under every one of its criteria supplied alone.
C8_CombinedIsIntersection ==
    (IsList(resp) /\ resp.res.status = 200)
        => Range(resp.res.results) =
              {id \in MatchingIds(WithoutKeys(resp.req, DOMAIN resp.req.filter)) :
                  \A k \in SuppliedKeys(resp.req) :
                      id \in MatchingIds(OnlyKey(resp.req, k))}

RangePairs ==
    {<<"price", "price_min", "price_max">>,
     <<"rating", "rating_min", "rating_max">>,
     <<"pages", "pages_min", "pages_max">>,
     <<"publication_year", "publication_year_min", "publication_year_max">>}

RangeKeys == {p[2] : p \in RangePairs} \cup {p[3] : p \in RangePairs}

\* the value of a column as an option ({} is NULL)
ColumnValue(b, col) == IF col \in {"rating", "pages"} THEN b[col] ELSE {b[col]}

\* L <= v and v <= U for the value of the column, where a bound is given
WithinBounds(b, col, lo, hi) ==
    (lo.t = "num" \/ hi.t = "num")
        => \E v \in ColumnValue(b, col) :
              /\ lo.t = "num" => lo.v <= v
              /\ hi.t = "num" => v <= hi.v

IsRangeRequest(req) ==
    /\ req.view = "books"
    /\ req.method = "list"
    /\ SuppliedKeys(req) \subseteq RangeKeys
    /\ MalformedKeys(req) = {}

OrderRequests ==
    {BookListRequest(NoBookFilter, <<>>, ord, None, None, FALSE) :
        ord \in {<<>>, <<Asc("isbn")>>, <<Desc("pages")>>, <<Asc("title")>>,
                 <<Desc("price")>>, <<Asc("rating")>>, <<Desc("rating")>>,
                 <<Asc("isbn"), Desc("genre")>>,
                 <<Asc("isbn"), Asc("title")>>}}
    \cup
    {AuthorListRequest(NoAuthorFilter, <<>>, ord, None, None, FALSE) :
        ord \in {<<>>, <<Asc("nationality")>>, <<Desc("books")>>, <<Desc("name")>>,
                 <<Asc("birth_date")>>}}

NextOrder ==
    \/ \E req \in OrderRequests : req.view = "books" /\ ListBooks(req)
    \/ \E req \in OrderRequests : req.view = "authors" /\ ListAuthors(req)
    \/ Expire

SpecOrder == InitQuery /\ [][NextOrder]_vars

\* the queries of the model: none, blank, one word in either case, two words
SearchQueries ==
    {<<>>, <<" ">>, <<"a">>, <<"A">>, <<"a", "b">>, <<" ", "b">>,
     <<"a", " ", "b">>, <<"b", " ", "a">>}

SearchRequests ==
    {BookListRequest(NoBookFilter, q, <<>>, None, None, FALSE) : q \in SearchQueries}
    \cup
    {BookListRequest(BookFilter1("genre", "fiction"), q, <<>>, None, None, FALSE) :
        q \in {<<>>, <<"a", " ", "b">>}}
    \cup
    {AuthorListRequest(NoAuthorFilter, q, <<>>, None, None, FALSE) :
        q \in {<<>>, <<"b">>, <<"a", "b">>, <<"a", " ", "b">>}}

NextSearch ==
    \/ \E req \in SearchRequests : req.view = "books" /\ ListBooks(req)
    \/ \E req \in SearchRequests : req.view = "authors" /\ ListAuthors(req)
    \/ Expire

SpecSearch == InitQuery /\ [][NextSearch]_vars

(***************************************************************************)
(* Properties of ordering and search.                                      *)
(***************************************************************************)
AllowListOf(req) ==
    IF req.view = "books" THEN BookOrderingFields ELSE AuthorOrderingFields

\* req asks for an ordering and none of its keys is in the allow-list
OnlyInvalidKeys(req) ==
    /\ req.method = "list"
    /\ req.ordering # <<>>
    /\ \A i \in DOMAIN req.ordering : req.ordering[i].f \notin AllowListOf(req)

\* the ids seq of the entities of the view of req are in the order ord
InOrder(req, seq, ord) ==
    \A i, j \in DOMAIN seq :
        i < j => RowCmp(EntityOf(req, seq[i]), EntityOf(req, seq[j]), ord) <= 0

\* C6 as claimed: with an ordering key outside the allow-list the request
\* succeeds and Books come by descending publication_year then ascending
\* title, Authors by ascending name.
C6_FallbackIsModelOrdering ==
    OnlyInvalidKeys(resp.req)
        => /\ resp.res.status = 200
           /\ InOrder(resp.req, resp.res.results,
                      IF resp.req.view = "books"
                      THEN <<[f |-> "publication_year", desc |-> TRUE],
                             [f |-> "title", desc |-> FALSE]>>
                      ELSE <<[f |-> "name", desc |-> FALSE]>>)

\* C6 amended: with an ordering key outside the allow-list the request
\* succeeds and the result has the ordering the view declares: Books by
\* descending created_at, Authors by ascending name.
C6_FallbackIsViewOrdering ==
    OnlyInvalidKeys(resp.req)
        => /\ resp.res.status = 200
           /\ Range(resp.res.results) = MatchingIds(resp.req)
           /\ InOrder(resp.req, resp.res.results,
                      IF resp.req.view = "books"
                      THEN <<[f |-> "created_at", desc |-> TRUE]>>
                      ELSE <<[f |-> "name", desc |-> FALSE]>>)

\* C6 witness: ordering=isbn on the full collection came newest first, which
\* is not the order by publication_year and title
C6_Witness ==
    /\ resp.req.view = "books"
    /\ OnlyInvalidKeys(resp.req)
    /\ books = FixtureBooks
    /\ resp.res.results = <<4, 3, 2, 1>>

Reverse(seq) == [i \in 1..Len(seq) |-> seq[Len(seq) + 1 - i]]

\* req asks for one ordering key, and the key is in the allow-list
OneAllowedKey(req) ==
    /\ req.method = "list"
    /\ Len(req.ordering) = 1
    /\ req.ordering[1].f \in AllowListOf(req)

\* no two of the entities req matches have the same value of column f
NoTies(req, f) ==
    \A x, y \in MatchingRows(req) : x.e[f] = y.e[f] => x.e.id = y.e.id

\* C11: under an allowed ordering key, entities that are equal on the key come
\* in primary-key order, so the sequence is determined by the store and the
\* request; and when no two ratings tie, ordering=-rating returns the reverse
\* of ordering=rating.
C11_TiesInPrimaryKeyOrder ==
    (IsList(resp) /\ resp.res.status = 200 /\ OneAllowedKey(resp.req))
        => /\ InOrder(resp.req, resp.res.results,
                      resp.req.ordering \o <<[f |-> "id", desc |-> FALSE]>>)
           /\ (resp.req.ordering = <<[f |-> "rating", desc |-> TRUE]>>
                  /\ NoTies(resp.req, "rating"))
                 => \A r \in ListResponses(
                            [resp.req EXCEPT
                                !.ordering = <<[f |-> "rating", desc |-> FALSE]>>]) :
                        r.results = Reverse(resp.res.results)

\* q[i..j] is a maximal run of non-blank characters of q
IsTerm(q, i, j) ==
    /\ 1 <= i /\ i <= j /\ j <= Len(q)
    /\ \A k \in i..j : q[k] # " "
    /\ i = 1 \/ q[i - 1] = " "
    /\ j = Len(q) \/ q[j + 1] = " "

SearchFieldsOf(req, e) ==
    IF req.view = "books" THEN BookSearchFields(e, authors) ELSE AuthorSearchFields(e)

\* the entities the filter criteria of req leave, as ids
FilterOnlyIds(req) == MatchingIds([req EXCEPT !.search = <<>>])

WriteStores == {{}, {Book3}}

InitWrite ==
    /\ authors = FixtureAuthors
    /\ books \in WriteStores
    /\ nextId = [book |-> 5, author |-> 4]
    /\ clock = 8
    /\ year = StartYear
    /\ cache = {}
    /\ resp = NoResp
    /\ scan = NoScan
    /\ pending = NoPending
    /\ creating = NoCreating
    /\ InitSocial

BookData(title, author_id, isbn, publication_year) ==
    [NoData EXCEPT !.title = {title}, !.author_id = {author_id}, !.isbn = {isbn},
                   !.publication_year = {publication_year}, !.price = {1999}]

Titles == {<<"a">>, <<"A">>}

\* a payload with a blank title, a one-digit ISBN, next year as publication
\* year and a negative price
SeveralInvalid ==
    [BookData(<<" ">>, 1, <<"1">>, StartYear + 1) EXCEPT !.price = {0 - 1}]

\* the ISBN of Book3 and an ISBN not stored at the start
Isbns == {Isbn("2"), Isbn("5")}

CreatePayloads ==
    {BookData(t, a, i, StartYear) : t \in Titles, a \in {1, 2}, i \in Isbns}
    \cup {BookData(<<"a">>, 1, <<"1">>, StartYear),
          [BookData(<<" ">>, 1, Isbn("2"), StartYear + 1) EXCEPT !.price = {}],
          SeveralInvalid}

PutPayloads ==
    {BookData(<<"a">>, 2, i, StartYear) : i \in Isbns} \cup {SeveralInvalid}

PatchPayloads ==
    {[NoData EXCEPT !.title = {t}] : t \in Titles}
    \cup {[NoData EXCEPT !.author_id = {a}] : a \in {1, 2}}
    \cup {[NoData EXCEPT !.publication_year = {y}] : y \in {StartYear, StartYear - 1}}

BookPks == {3, 5}

BookWriteRequests ==
    {WriteRequest("books", "create", TRUE, 0, d) : d \in CreatePayloads}
    \cup {WriteRequest("books", "update", TRUE, pk, d) :
             pk \in BookPks, d \in PutPayloads}
    \cup {WriteRequest("books", "partial_update", TRUE, pk, d) :
             pk \in BookPks, d \in PatchPayloads}
    \cup {WriteRequest("books", "destroy", TRUE, pk, NoData) : pk \in BookPks}

NextBooks ==
    \/ \E req \in BookWriteRequests : CreateBook(req)
    \/ \E req \in BookWriteRequests : UpdateBook(req)
    \/ \E req \in BookWriteRequests : DestroyBook(req)

SpecBooks == InitWrite /\ [][NextBooks]_vars

\* the creations and the partial updates alone
PatchRequests ==
    {req \in BookWriteRequests : req.method \in {"create", "partial_update"}}

NextPatch ==
    \/ \E req \in PatchRequests : CreateBook(req)
    \/ \E req \in PatchRequests : UpdateBook(req)

SpecPatch == InitWrite /\ [][NextPatch]_vars

\* the transition answers a write request
Handled == resp'.tick # resp.tick

\* C2: a create request for a Book whose ISBN is the ISBN of a stored Book is
\* answered 400 with an error on the isbn field, and the stored collection is
\* the same afterwards.
C2_DuplicateIsbnRejected ==
    [][(/\ Handled
        /\ resp'.req.method = "create"
        /\ resp'.req.view \in {"books", "books_generic"}
        /\ resp'.req.auth
        /\ \E b \in books : {b.isbn} = resp'.req.data.isbn)
          => /\ resp'.res.status = 400
             /\ "isbn" \in resp'.res.errors
             /\ books' = books]_vars

\* C2 witness: a create whose only fault is the ISBN of stored Book3 was
\* answered 400 on isbn alone
C2_Witness ==
    /\ resp.req.method = "create"
    /\ resp.req.view = "books"
    /\ resp.req.data = BookData(<<"A">>, 1, Isbn("2"), StartYear)
    /\ Book3 \in books
    /\ resp.res.status = 400
    /\ resp.res.errors = {"isbn"}

\* C3: no two stored Books have the same (title, author, publication_year),
\* after any sequence of create, PUT, PATCH and delete, also when a PATCH
\* supplies only one of the three fields.
C3_TripleUnique ==
    \A b1, b2 \in books :
        (/\ b1.title = b2.title
         /\ b1.author = b2.author
         /\ b1.publication_year = b2.publication_year) => b1.id = b2.id

\* C3 witness: a PATCH of the title alone that would have given book 5 the
\* triple of stored Book3 was answered 400
C3_Witness ==
    /\ resp.req.method = "partial_update"
    /\ resp.req.pk = 5
    /\ resp.req.data = [NoData EXCEPT !.title = {<<"a">>}]
    /\ Book3 \in books
    /\ \E b \in books : b.id = 5 /\ b.title = <<"A">> /\ b.author = 2
                             /\ b.publication_year = StartYear
    /\ resp.res.status = 400

\* the column a key of the request data is stored in
ColumnOf(k) == IF k = "author_id" THEN "author" ELSE k

\* column k of book b holds the value the request supplied under key k
HoldsSupplied(b, k, data) ==
    CASE k \in {"pages", "rating"} -> b[k] = data[k]
      [] k = "title" -> \E v \in data[k] : b.title = Strip(v)
      [] OTHER -> \E v \in data[k] : b[ColumnOf(k)] = v

\* C24: a partial update answered 200 leaves the Book under the request's
\* key with the supplied values in the supplied fields and its other fields
\* as they were, and leaves every other Book and every Author as it was.
C24_PartialUpdateChangesSuppliedOnly ==
    [][(/\ Handled
        /\ resp'.req.method = "partial_update"
        /\ resp'.req.view \in {"books", "books_generic"}
        /\ resp'.res.status = 200)
          => /\ authors' = authors
             /\ \E old \in books, new \in books' :
                   /\ old.id = resp'.req.pk
                   /\ new.id = old.id
                   /\ new.created_at = old.created_at
                   /\ books' \ {new} = books \ {old}
                   /\ \A k \in DOMAIN resp'.req.data :
                         IF resp'.req.data[k] = {}
                         THEN new[ColumnOf(k)] = old[ColumnOf(k)]
                         ELSE HoldsSupplied(new, k, resp'.req.data)]_vars

\* C24 witness: a PATCH of the title of stored Book3 was answered 200 and
\* the book has the new title and the genre, description and ISBN it had
C24_Witness ==
    /\ resp.req.method = "partial_update"
    /\ resp.req.pk = 3
    /\ resp.req.data = [NoData EXCEPT !.title = {<<"A">>}]
    /\ resp.res.status = 200
    /\ [Book3 EXCEPT !.title = <<"A">>] \in books

\* the fields of a payload whose value breaks a rule of the field itself
InvalidFields(data) ==
    {k \in {"title"} : \E v \in data.title : \A i \in 1..Len(v) : v[i] = " "}
    \cup {k \in {"isbn"} :
             \E v \in data.isbn :
                 Len(v) # IsbnLength \/ \E i \in 1..Len(v) : v[i] \notin Digits}
    \cup {k \in {"publication_year"} : \E v \in data.publication_year : v > year}
    \cup {k \in {"price"} : \E v \in data.price : v < 0}
    \cup {k \in {"rating"} : \E v \in data.rating : v < 0 \/ v > MaxRating}

\* C18: a Book create or update by an authenticated client on a stored key,
\* in which one or more fields are invalid, is answered 400 with an error
\* entry for every invalid field, and the stored collection is the same
\* afterwards.
C18_EveryInvalidFieldReported ==
    [][(/\ Handled
        /\ resp'.req.method \in {"create", "update", "partial_update"}
        /\ resp'.req.auth
        /\ resp'.res.status # 404
        /\ InvalidFields(resp'.req.data) # {})
          => /\ resp'.res.status = 400
             /\ InvalidFields(resp'.req.data) \subseteq resp'.res.errors
             /\ books' = books]_vars

\* C18 witness: a create with four invalid fields was answered 400 with the
\* four fields in the error list
C18_Witness ==
    /\ resp.req.method = "create"
    /\ resp.req.data = SeveralInvalid
    /\ resp.res.status = 400
    /\ resp.res.errors = {"title", "isbn", "publication_year", "price"}

(***************************************************************************)
(* Reads and writes by authenticated and unauthenticated clients           *)
(* (SpecPerm).                                                             *)
(***************************************************************************)
AuthorData(name) == [NoAuthorData EXCEPT !.name = {name}]

ReadRequest(view, method, auth, pk) ==
    [view |-> view, method |-> method, auth |-> auth, pk |-> pk]

PageRequest(view, method, auth) ==
    [view |-> view, method |-> method, auth |-> auth, page |-> None,
     page_size |-> None]

TopRatedRequest(auth, limit) ==
    [view |-> "authors", method |-> "top_rated", auth |-> auth, limit |-> limit]

PermRequests ==
    UNION {
        {WriteRequest("books", "create", auth, 0,
                      BookData(<<"a">>, 1, Isbn("5"), StartYear)),
         WriteRequest("books", "update", auth, 3,
                      BookData(<<"a">>, 2, Isbn("2"), StartYear)),
         WriteRequest("books", "partial_update", auth, 3,
                      [NoData EXCEPT !.price = {999}]),
         WriteRequest("books", "destroy", auth, 3, NoData),
         WriteRequest("books_generic", "create", auth, 0,
                      BookData(<<"a">>, 1, Isbn("5"), StartYear)),
         WriteRequest("books_generic", "update", auth, 3,
                      BookData(<<"a">>, 2, Isbn("2"), StartYear)),
         WriteRequest("books_generic", "destroy", auth, 3, NoData),
         WriteRequest("authors", "update", auth, 2, AuthorData(<<"a", "b">>)),
         WriteRequest("authors", "partial_update", auth, 2,
                      [NoAuthorData EXCEPT !.bio = {<<"a">>}]),
         WriteRequest("authors", "destroy", auth, 2, NoAuthorData)} :
        auth \in BOOLEAN}
    \cup
    {WriteRequest("authors", "create", FALSE, 0, AuthorData(<<"b", "a">>)),
     ReadRequest("books", "retrieve", FALSE, 3),
     ReadRequest("authors", "retrieve", FALSE, 2),
     PageRequest("books", "in_stock", FALSE),
     TopRatedRequest(FALSE, None),
     BookListRequest(NoBookFilter, <<>>, <<>>, None, None, FALSE),
     AuthorListRequest(NoAuthorFilter, <<>>, <<>>, None, None, FALSE)}

NextPerm ==
    \/ \E req \in PermRequests : CreateBook(req)
    \/ \E req \in PermRequests : UpdateBook(req)
    \/ \E req \in PermRequests : DestroyBook(req)
    \/ \E req \in PermRequests : BookCreateView(req)
    \/ \E req \in PermRequests : BookUpdateView(req)
    \/ \E req \in PermRequests : BookDeleteView(req)
    \/ \E req \in PermRequests : RetrieveBook(req)
    \/ \E req \in PermRequests : InStock(req)
    \/ \E req \in PermRequests : CreateAuthor(req)
    \/ \E req \in PermRequests : UpdateAuthor(req)
    \/ \E req \in PermRequests : DestroyAuthor(req)
    \/ \E req \in PermRequests : RetrieveAuthor(req)
    \/ \E req \in PermRequests : TopRated(req)
    \/ \E req \in PermRequests :
          req.view = "books" /\ req.method = "list" /\ ListBooks(req)
    \/ \E req \in PermRequests :
          req.view = "authors" /\ req.method = "list" /\ ListAuthors(req)
    \/ Expire

SpecPerm == InitWrite /\ [][NextPerm]_vars

InitActions ==
    /\ authors = FixtureAuthors
    /\ books \in SUBSET (FixtureBooks \cup {Book5})
    /\ nextId = [book |-> 6, author |-> 4]
    /\ clock = 9
    /\ year = StartYear
    /\ cache = {}
    /\ resp = NoResp
    /\ scan = NoScan
    /\ pending = NoPending
    /\ creating = NoCreating
    /\ InitSocial

RecentRequest(years) ==
    [view |-> "books", method |-> "recent", auth |-> FALSE, years |-> years,
     page |-> None, page_size |-> None]

ByGenreRequest(genre) ==
    [view |-> "books", method |-> "by_genre", auth |-> FALSE, genre |-> genre,
     page |-> None, page_size |-> None]

PriceRangeRequest(min_price, max_price) ==
    [view |-> "books", method |-> "price_range", auth |-> FALSE,
     min_price |-> min_price, max_price |-> max_price,
     page |-> None, page_size |-> None]

SearchViewRequest(q, genre, min_rating, max_price) ==
    [view |-> "books_generic", method |-> "search", auth |-> FALSE, q |-> q,
     genre |-> genre, min_rating |-> min_rating, max_rating |-> None,
     min_price |-> None, max_price |-> max_price, page |-> None, page_size |-> None]

ActionRequests ==
    {ReadRequest("authors", "statistics", FALSE, pk) : pk \in {1, 2, 3, 9}}
    \cup {TopRatedRequest(FALSE, limit) :
             limit \in {None, Bad, Num(0 - 1), Num(0), Num(1), Num(2)}}
    \cup {RecentRequest(years) : years \in {None, Bad, Num(0 - 1), Num(1)}}
    \cup {ByGenreRequest(genre) : genre \in {"", "Fiction", "romance"}}
    \cup {PriceRangeRequest(None, None), PriceRangeRequest(Bad, None),
          PriceRangeRequest(Num(1999), Num(1999)),
          PriceRangeRequest(Num(1999), None),
          PriceRangeRequest(Num(0 - 1), None)}
    \cup {SearchViewRequest(<<"a">>, "", None, None),
          SearchViewRequest(<<>>, "", Bad, None),
          SearchViewRequest(<<>>, "fiction", Num(430), Num(2999))}
    \cup {PageRequest("books", "in_stock", FALSE),
          BooksFiltered(NoBookFilter),
          BooksFiltered(BookFilter1("rating_min", Bad))}

NextActions ==
    \/ \E req \in ActionRequests : Statistics(req)
    \/ \E req \in ActionRequests : TopRated(req)
    \/ \E req \in ActionRequests : Recent(req)
    \/ \E req \in ActionRequests : ByGenre(req)
    \/ \E req \in ActionRequests : PriceRange(req)
    \/ \E req \in ActionRequests : BookSearchView(req)
    \/ \E req \in ActionRequests : InStock(req)
    \/ \E req \in ActionRequests : req.method = "list" /\ ListBooks(req)
    \/ Expire

SpecActions == InitActions /\ [][NextActions]_vars

\* the author the request of r names by its key
AuthorOf(r) == CHOOSE a \in authors : a.id = r.req.pk

Rated(bs) == {b \in bs : b.rating # {}}

RatingSum(bs) == SumOver(Rated(bs), [b \in Rated(bs) |-> CHOOSE v \in b.rating : TRUE])

C22_PriceRangeIsLowestAndHighest ==
    (/\ resp.req.method = "statistics"
     /\ resp.res.status = 200
     /\ BooksOf(books, AuthorOf(resp)) # {})
        => LET mine == BooksOf(books, AuthorOf(resp))
               range == resp.res.results[1].price_range
           IN  /\ range.min_price # {}
               /\ range.max_price # {}
               /\ \A lo \in range.min_price :
                     \E b \in mine : /\ lo.sum = b.price * lo.n
                                     /\ \A o \in mine : b.price <= o.price
               /\ \A hi \in range.max_price :
                     \E b \in mine : /\ hi.sum = b.price * hi.n
                                     /\ \A o \in mine : b.price >= o.price

\* C25: price_range returns exactly the books with min_price <= price <=
\* max_price, a bound the request does not carry being no constraint.
C25_PriceRangeWithOpenSides ==
    (/\ resp.req.method = "price_range"
     /\ resp.req.min_price.t # "bad"
     /\ resp.req.max_price.t # "bad")
        => LET ids == {b.id : b \in {b \in books :
                         /\ resp.req.min_price.t = "num"
                               => b.price >= resp.req.min_price.v
                         /\ resp.req.max_price.t = "num"
                               => b.price <= resp.req.max_price.v}}
           IN  /\ resp.res.status = 200
               /\ Range(resp.res.results) = ids
               /\ resp.res.count = Cardinality(ids)

\* the mean rating of x's books is higher than that of y's; an author
\* without a rated book has no mean and is higher than nobody
HigherRated(x, y) ==
    /\ Rated(BooksOf(books, x)) # {}
    /\ \/ Rated(BooksOf(books, y)) = {}
       \/ RatingSum(BooksOf(books, x)) * Cardinality(Rated(BooksOf(books, y)))
              > RatingSum(BooksOf(books, y)) * Cardinality(Rated(BooksOf(books, x)))

\* C15: top_rated with limit N (10 by default) returns at most N authors, all
\* with a book, by non-increasing mean rating; no author with a book that is
\* left out has a higher mean than a returned one; an author whose books are
\* all unrated never comes before an author with a rated book.
C15_TopRatedByMeanRating ==
    (resp.req.method = "top_rated" /\ resp.res.status = 200)
        => LET limit == IF resp.req.limit.t = "none" THEN 10 ELSE resp.req.limit.v
               ids == resp.res.results
               owners == {a \in authors : BooksOf(books, a) # {}}
               At(i) == CHOOSE a \in authors : a.id = ids[i]
           IN  /\ Len(ids) <= limit
               /\ Len(ids) = Min(limit, Cardinality(owners))
               /\ NoDuplicates(ids)
               /\ Range(ids) \subseteq {a.id : a \in owners}
               /\ \A i, j \in DOMAIN ids : i < j => ~ HigherRated(At(j), At(i))
               /\ \A a \in owners :
                     a.id \notin Range(ids)
                         => \A i \in DOMAIN ids : ~ HigherRated(a, At(i))
               /\ \A i, j \in DOMAIN ids :
                     (i < j /\ Rated(BooksOf(books, At(i))) = {})
                         => Rated(BooksOf(books, At(j))) = {}

\* C15 witness: with limit=1, author 2 (one unrated book) and author 3 (a
\* book rated 4.35) both owning books, author 3 was returned
C15_Witness ==
    /\ resp.req.method = "top_rated"
    /\ resp.req.limit = Num(1)
    /\ books = {Book3, Book5}
    /\ resp.res.status = 200
    /\ resp.res.results = <<3>>

\* the read handlers that take no key of an entity
KeylessReads ==
    {"list", "search", "top_rated", "recent", "by_genre", "in_stock", "price_range"}

\* C16: a list, search, top_rated, recent, by_genre, in_stock or price_range
\* request is answered with success whatever its query parameters are: a
\* value that is not a number, a negative one or an absent genre never gives
\* an error response or an unhandled exception.
C16_ReadsNeverFail ==
    resp.req.method \in KeylessReads => resp.res.status = 200

(***************************************************************************)
(* Deleting authors that own books (SpecCascade).  The only book deleted   *)
(* by key is book 3, so the other fixture books leave the store only with  *)
(* their author.                                                           *)
(***************************************************************************)
InitCascade ==
    /\ authors = FixtureAuthors
    /\ books = FixtureBooks
    /\ nextId = [book |-> 5, author |-> 4]
    /\ clock = 8
    /\ year = StartYear
    /\ cache = {}
    /\ resp = NoResp
    /\ scan = NoScan
    /\ pending = NoPending
    /\ creating = NoCreating
    /\ InitSocial

CascadeRequests ==
    {WriteRequest("authors", "destroy", TRUE, pk, NoAuthorData) : pk \in {1, 2, 3, 9}}
    \cup {WriteRequest("authors", "destroy", FALSE, 1, NoAuthorData),
          WriteRequest("authors", "create", TRUE, 0, AuthorData(<<"b", "a">>)),
          WriteRequest("books", "destroy", TRUE, 3, NoData),
          WriteRequest("books", "partial_update", TRUE, 1,
                       [NoData EXCEPT !.author_id = {3}]),
          WriteRequest("books", "partial_update", TRUE, 3,
                       [NoData EXCEPT !.author_id = {1}])}
    \cup {WriteRequest("books", "create", TRUE, 0,
                       BookData(<<"a">>, a, Isbn("5"), StartYear)) : a \in {1, 2, 3}}

NextCascade ==
    \/ \E req \in CascadeRequests : DestroyAuthor(req)
    \/ \E req \in CascadeRequests : CreateAuthor(req)
    \/ \E req \in CascadeRequests : CreateBook(req)
    \/ \E req \in CascadeRequests : UpdateBook(req)
    \/ \E req \in CascadeRequests : DestroyBook(req)

SpecCascade == InitCascade /\ [][NextCascade]_vars

\* C17: every stored Book references a stored Author in every reachable
\* state, and a successful delete of an Author removes, in the same step,
\* the author and every Book it owns and leaves the Books of the other
\* authors as they were.
C17_DeleteCascadesToBooks ==
    /\ [](\A b \in books : \E a \in authors : a.id = b.author)
    /\ [][(/\ Handled
           /\ resp'.req.view = "authors"
           /\ resp'.req.method = "destroy"
           /\ resp'.res.status = 204)
             => /\ \A a \in authors' : a.id # resp'.req.pk
                /\ \A b \in books :
                      IF b.author = resp'.req.pk THEN b \notin books'
                                                ELSE b \in books'
                /\ books' \subseteq books]_vars

\* C17 witness: author 1 was deleted and took books 1, 2 and 4 along, while
\* book 3 of author 2 is stored as before
C17_Witness ==
    /\ resp.req.view = "authors"
    /\ resp.req.method = "destroy"
    /\ resp.req.pk = 1
    /\ resp.res.status = 204
    /\ books = {Book3}
    /\ Author2 \in authors
    /\ Author1 \notin authors

(***************************************************************************)
(* Lists before and after a create (SpecRoundTrip).                        *)
(***************************************************************************)
RoundTripRequests ==
    {BookListRequest(BookFilter1("isbn", i), <<>>, <<>>, None, None, auth) :
        i \in Isbns, auth \in BOOLEAN}
    \cup {BooksFiltered(NoBookFilter)}
    \cup {WriteRequest("books", "create", TRUE, 0,
                       BookData(t, 1, Isbn("5"), StartYear)) : t \in Titles}
    \cup {WriteRequest("books", "destroy", TRUE, 3, NoData)}

NextRoundTrip ==
    \/ \E req \in RoundTripRequests : req.method = "list" /\ ListBooks(req)
    \/ \E req \in RoundTripRequests : CreateBook(req)
    \/ \E req \in RoundTripRequests : DestroyBook(req)
    \/ Expire

SpecRoundTrip == InitWrite /\ [][NextRoundTrip]_vars

\* C19: a Book list request filtered by an ISBN, answered while a Book with
\* that ISBN is stored, returns exactly that Book, whatever list requests
\* were answered before the Book was created.
C19_ListAfterCreateReturnsTheBook ==
    (/\ resp.req.view = "books"
     /\ resp.req.method = "list"
     /\ resp.req.filter.isbn # <<>>)
        => \A b \in books :
              b.isbn = resp.req.filter.isbn
                 => /\ resp.res.status = 200
                    /\ resp.res.count = 1
                    /\ resp.res.results = <<b.id>>

(***************************************************************************)
(* One list request with one write between its two queries (SpecRace).     *)
(* The handlers run in autocommit mode: the COUNT query and the page query *)
(* of the paginator are two statements, and a write of another request     *)
(* can commit between them.                                                *)
(***************************************************************************)
RaceLists ==
    {BookListRequest(NoBookFilter, <<>>, ord, page, psize, FALSE) :
        ord \in {<<>>, <<Asc("title")>>},
        page \in {None, Num(2)},
        psize \in {None, Num(1)}}
    \cup {BooksFiltered(BookFilter1("rating_min", Bad))}

RaceWrites ==
    {WriteRequest("books", "create", TRUE, 0,
                  BookData(<<"a">>, 1, Isbn("5"), StartYear)),
     WriteRequest("books", "partial_update", TRUE, 3,
                  [NoData EXCEPT !.title = {<<"c">>}]),
     WriteRequest("books", "destroy", TRUE, 3, NoData)}

\* the one write commits after the COUNT query and before the page query
Racing == pending.state = "counted" /\ books = pending.pre

NextRace ==
    \/ \E req \in RaceLists : CountQuery(req)
    \/ PageQuery
    \/ \E req \in RaceWrites : Racing /\ CreateBook(req)
    \/ \E req \in RaceWrites : Racing /\ UpdateBook(req)
    \/ \E req \in RaceWrites : Racing /\ DestroyBook(req)

SpecRace == InitQuery /\ [][NextRace]_vars

\* C20: the response of a paginated list request that ran with one write
\* between its queries has the count, the total_pages and the results of a
\* response computed on the books stored before the write or of one
\* computed on the books stored after it.
C20_ListSeesOneState ==
    (pending.state = "done" /\ resp.req = pending.req)
        => \E r \in BookListResponses(pending.req, pending.pre, authors)
                     \cup BookListResponses(pending.req, books, authors) :
              /\ r.count = resp.res.count
              /\ r.total_pages = resp.res.total_pages
              /\ r.results = resp.res.results

(***************************************************************************)
(* The Author list under the criteria derived from the books of an author  *)
(* (SpecAuthors).                                                          *)
(***************************************************************************)
DerivedKeys == {"has_books", "min_books", "max_books", "book_rating_min"}

DerivedFilters ==
    {AuthorFilter1("min_books", Num(n)) : n \in {1, 3}}
    \cup {AuthorFilter1("max_books", Num(n)) : n \in {0, 1}}
    \cup {AuthorFilter1("has_books", v) : v \in {"true", "false"}}
    \cup {AuthorFilter1("book_rating_min", Num(x)) : x \in {435, 440}}
    \cup {AuthorFilter2("has_books", "true", "min_books", Num(2)),
          AuthorFilter2("min_books", Num(1), "max_books", Num(2)),
          AuthorFilter2("min_books", Num(2), "book_rating_min", Num(435)),
          AuthorFilter1("max_books", Bad)}

AuthorRequests == {AuthorsFiltered(f) : f \in DerivedFilters}

NextAuthors ==
    \/ \E req \in AuthorRequests : ListAuthors(req)
    \/ Expire

SpecAuthors == InitActions /\ [][NextAuthors]_vars

\* the books author a owns
Owned(a) == {b \in books : b.author = a.id}

\* author a meets the derived criteria of filter f, each read on its own
MeetsDerived(f, a) ==
    /\ f.min_books.t = "num" => Cardinality(Owned(a)) >= f.min_books.v
    /\ f.max_books.t = "num" => Cardinality(Owned(a)) <= f.max_books.v
    /\ f.has_books = "true" => Owned(a) # {}
    /\ f.has_books = "false" => Owned(a) = {}
    /\ f.book_rating_min.t = "num"
          => /\ Rated(Owned(a)) # {}
             /\ RatingSum(Owned(a))
                   >= f.book_rating_min.v * Cardinality(Rated(Owned(a)))

\* C21: an Author list request whose criteria are among min_books, max_books,
\* has_books and book_rating_min returns exactly the authors that own at
\* least min_books books, at most max_books books (none included), at least
\* one book (has_books=true) or none (has_books=false), and whose mean rating
\* over their rated books is at least book_rating_min.
C21_DerivedCountFilters ==
    (/\ IsList(resp)
     /\ resp.req.view = "authors"
     /\ SuppliedKeys(resp.req) # {}
     /\ SuppliedKeys(resp.req) \subseteq DerivedKeys
     /\ MalformedKeys(resp.req) = {})
        => LET ids == {a.id : a \in {a \in authors : MeetsDerived(resp.req.filter, a)}}
           IN  /\ resp.res.status = 200
               /\ Range(resp.res.results) = ids
               /\ Len(resp.res.results) = Cardinality(ids)
               /\ resp.res.count = Cardinality(ids)

\* C21 witness: max_books=1 computed while author 1 owns two books and
\* authors 2 and 3 own none returns authors 2 and 3
C21_Witness ==
    /\ resp.req = AuthorsFiltered(AuthorFilter1("max_books", Num(1)))
    /\ ~ resp.cached
    /\ books = {Book1, Book2}
    /\ Range(resp.res.results) = {2, 3}
    /\ resp.res.count = 2

(***************************************************************************)
(* Books written through the serializer and through Book.save, across a    *)
(* change of year (SpecStored).                                            *)
(***************************************************************************)
\* thirteen characters that are digits for str.isdigit() and not decimal
SuperscriptIsbn == [i \in 1..IsbnLength |-> "^2"]

\* a valid payload and payloads with one field out of its range
StoredPayloads ==
    {BookData(<<"a">>, 1, i, StartYear) : i \in {Isbn("5"), <<"1">>, SuperscriptIsbn}}
    \cup {BookData(<<"a">>, 1, Isbn("5"), y) :
             y \in {MinPublicationYear - 1, StartYear + 1}}
    \cup {[BookData(<<"a">>, 1, Isbn("5"), StartYear) EXCEPT !.rating = {r}] :
             r \in {MaxRating, MaxRating + 1}}
    \cup {[BookData(<<"a">>, 1, Isbn("5"), StartYear) EXCEPT !.price = {0 - 1}]}

StoredPatches ==
    {[NoData EXCEPT !.isbn = {SuperscriptIsbn}],
     [NoData EXCEPT !.publication_year = {StartYear + 1}],
     [NoData EXCEPT !.rating = {0 - 1}],
     [NoData EXCEPT !.rating = {0}],
     [NoData EXCEPT !.price = {0 - 1}]}

StoredRequests ==
    {WriteRequest(v, "create", TRUE, 0, d) :
        v \in {"books", "books_generic"}, d \in StoredPayloads}
    \cup {WriteRequest("books", "partial_update", TRUE, 3, d) : d \in StoredPatches}
    \cup {WriteRequest("books", "update", TRUE, 3, d) : d \in StoredPayloads}

NextStored ==
    \/ \E req \in StoredRequests : CreateBook(req)
    \/ \E req \in StoredRequests : BookCreateView(req)
    \/ \E req \in StoredRequests : UpdateBook(req)
    \/ \E d \in StoredPayloads : ModelSave(d)
    \/ NewYear

SpecStored == InitWrite /\ [][NextStored]_vars

\* C23: every stored Book has an ISBN of exactly 13 decimal digits, a
\* publication_year from 1000 up to the year of its write (so up to the
\* current year), a rating that is absent or within 0.0..5.0 and a price
\* that is not negative, through the serializer and through Book.save, also
\* after the year has changed.
C23_StoredBooksWellFormed ==
    \A b \in books :
        /\ Len(b.isbn) = IsbnLength
        /\ \A i \in 1..Len(b.isbn) : b.isbn[i] \in Digits
        /\ b.publication_year >= MinPublicationYear
        /\ b.publication_year <= year
        /\ \A r \in b.rating : r >= 0 /\ r <= MaxRating
        /\ b.price >= 0

(***************************************************************************)
(* Two clients creating books at the same time (SpecCreate).  The steps of *)
(* the two handlers interleave freely.                                     *)
(***************************************************************************)
InitCreate ==
    /\ authors = FixtureAuthors
    /\ books \in WriteStores
    /\ nextId = [book |-> 4, author |-> 4]
    /\ clock = 8
    /\ year = StartYear
    /\ cache = {}
    /\ resp = NoResp
    /\ scan = NoScan
    /\ pending = NoPending
    /\ creating = NoCreating
    /\ InitSocial

ConcurrentCreates ==
    {WriteRequest(v, "create", TRUE, 0, BookData(t, 1, i, StartYear)) :
        v \in {"books", "books_generic"}, t \in Titles, i \in Isbns}

NextCreate ==
    \/ \E c \in Clients, req \in ConcurrentCreates : IsValid(c, req)
    \/ \E c \in Clients : FullClean(c)
    \/ \E c \in Clients : Insert(c)

SpecCreate == InitCreate /\ [][NextCreate]_vars

\* the creates that are answered
Done == {c \in Clients : creating[c].state = "done"}

\* C27: at most one stored Book has a given ISBN; a create that has passed
\* the serializer's checks and is answered after another create has stored
\* a Book with its ISBN is answered 400, and the Books stored by the two
\* clients are exactly those of the creates answered 201.
C27_ConcurrentCreatesKeepIsbnUnique ==
    /\ \A b1, b2 \in books : b1.isbn = b2.isbn => b1.id = b2.id
    /\ \A c \in Done : creating[c].res.status \in {201, 400}
    /\ \A c \in Done :
          creating[c].res.status = 201
              <=> \E b \in books : /\ <<b.id>> = creating[c].res.results
                                   /\ {b.isbn} = creating[c].req.data.isbn
    /\ Cardinality({b \in books : b.id >= 4})
          = Cardinality({c \in Done : creating[c].res.status = 201})

\* C27 witness: both clients asked for the same ISBN, which was free, both
\* passed every check before the INSERT; one is answered 201, the other 400
C27_Witness ==
    /\ Done = Clients
    /\ creating[1].req.data.isbn = {Isbn("5")}
    /\ creating[2].req.data.isbn = {Isbn("5")}
    /\ creating[1].res.status = 201
    /\ creating[2].res = ErrorResponse(400, {"non_field_errors"})
    /\ Cardinality({b \in books : b.isbn = Isbn("5")}) = 1

\* ---------------------------------------------------------------------
\* social_media_api: posts, comments, the follow graph and the feed
\* ---------------------------------------------------------------------
Requesters == Users \cup {Anonymous}

Targets == Users \cup {NoUser}

PostData ==
    {[title |-> <<"a">>, content |-> <<"x">>],
     [title |-> <<"b">>, content |-> <<"x">>],
     [title |-> <<>>, content |-> <<"x">>]}

\* the follow graph and the feed
NextSocial ==
    \/ \E u \in Requesters, t \in Targets : Follow(u, t)
    \/ \E u \in Requesters, t \in Targets : Unfollow(u, t)
    \/ \E u \in Requesters : Feed(u)
    \/ \E u \in Requesters, data \in PostData : CreatePost(u, data)

SpecSocial == InitCascade /\ [][NextSocial]_vars

\* the posts and their comments, asked by the authors of the two first
\* posts and without credentials
Writers == {Anonymous, 2, 3}

PostEdits ==
    {[title |-> <<"b">>, content |-> <<"x">>],
     [title |-> <<>>, content |-> <<"x">>]}

CommentEdits ==
    {[post |-> 1, content |-> <<"c">>],
     [post |-> 2, content |-> <<"c">>],
     [post |-> 1, content |-> <<>>]}

NextPosts ==
    \/ \E u \in Writers, data \in PostEdits : CreatePost(u, data)
    \/ \E u \in Writers, k \in 1..MaxMade, data \in CommentEdits :
          CreateComment(u, k, data)
    \/ \E u \in Writers, k \in 1..MaxMade, data \in PostEdits :
          UpdatePost(u, k, data)
    \/ \E u \in Writers, k \in 1..MaxMade : DestroyPost(u, k)
    \/ \E u \in Writers, k \in 1..MaxMade, data \in CommentEdits :
          UpdateComment(u, k, data)
    \/ \E u \in Writers, k \in 1..MaxMade : DestroyComment(u, k)

SpecPosts == InitCascade /\ [][NextPosts]_vars

\* the step, one that changes the state, answers a request of one of the kinds
Answers(kinds) == reply'.kind \in kinds

\* C28: no following set contains the user it belongs to.  A follow or an
\* unfollow whose target is the requester is answered 400 and changes no
\* following set, and a follow of another user changes no following set but
\* the requester's.
C28_NoUserFollowsItself ==
    /\ [](\A u \in DOMAIN following : u \notin following[u])
    /\ [][Answers({"follow", "unfollow"}) =>
            /\ reply'.pk = reply'.user =>
                  reply'.status = 400 /\ following' = following
            /\ (reply'.kind = "follow" /\ reply'.pk # reply'.user) =>
                  \A w \in DOMAIN following :
                      w # reply'.user => following'[w] = following[w]]_vars

\* user 1, who follows 2 and 3 and is followed by 2, asked to follow user 1
C28_Witness ==
    /\ reply.kind = "follow" /\ reply.user = 1 /\ reply.pk = 1
    /\ reply.status = 400
    /\ following[1] = {2, 3} /\ following[2] = {1}

\* the posts and comments of which user u is not the author
OfOthers(kind, u) ==
    IF kind \in {"update_post", "destroy_post"}
    THEN {p.id : p \in {q \in posts : q.author # u}}
    ELSE {c.id : c \in {d \in comments : d.author # u}}

\* C29: an update or a delete of a Post or Comment asked by an authenticated
\* user who is not its author is rejected with 403 (400 for an invalid body)
\* and leaves the posts and the comments as they were.
C29_OnlyTheAuthorChanges ==
    [][(/\ Answers({"update_post", "destroy_post",
                    "update_comment", "destroy_comment"})
        /\ reply'.user # Anonymous
        /\ reply'.pk \in OfOthers(reply'.kind, reply'.user)) =>
           /\ reply'.status \in {400, 403}
           /\ posts' = posts /\ comments' = comments]_vars

\* the keys of the posts a feed of user u holds
Followed(u) == {p.id : p \in {q \in posts : q.author \in following[u]}}

CreatedAt(k) == (CHOOSE p \in posts : p.id = k).created_at

\* C30: the feed of a user u with a Profile is answered 200 and holds each
\* post whose author u follows at the request once, and no other post, the
\* newer before the older.  A follow of v answered 200 puts v into u's
\* following set, an unfollow answered 200 takes v out of it, and a follow of
\* a user already followed leaves every following set as it was.
C30_FeedIsThePostsOfTheFollowed ==
    /\ []((reply.kind = "feed" /\ reply.user \in DOMAIN following) =>
            /\ reply.status = 200
            /\ Range(reply.results) = Followed(reply.user)
            /\ NoDuplicates(reply.results)
            /\ \A i, j \in DOMAIN reply.results :
                  i < j => CreatedAt(reply.results[i])
                             > CreatedAt(reply.results[j]))
    /\ [][(Answers({"follow", "unfollow"}) /\ reply'.user \in DOMAIN following
             /\ reply'.pk \in Users \ {reply'.user}) =>
            /\ reply'.status = 200
            /\ reply'.kind = "follow" => reply'.pk \in following'[reply'.user]
            /\ reply'.kind = "unfollow" =>
                  reply'.pk \notin following'[reply'.user]
            /\ (reply'.kind = "follow" /\ reply'.pk \in following[reply'.user])
                  => following' = following]_vars

\* user 1 follows only user 2; the posts 1 and 3 are of user 2, the post 2 of
\* user 3; the feed of user 1 is the post 3, then the post 1
C30_Witness ==
    /\ reply.kind = "feed" /\ reply.user = 1 /\ reply.status = 200
    /\ following[1] = {2}
    /\ {<<p.id, p.author>> : p \in posts} = {<<1, 2>>, <<2, 3>>, <<3, 2>>}
    /\ reply.results = <<3, 1>>

====
